---- MODULE Spec2Model ----
(***************************************************************************)
(* A model of the Pascal-subset interpreter of src/src/spi.py: the Lexer, *)
(* the recursive-descent Parser, the SymbolTable and the tree-walking      *)
(* Interpreter, driven the way evaluate() and test_lexer() drive them.     *)
(*                                                                         *)
(* Text is a sequence of one-character strings.  Python's None is a       *)
(* distinguished value of each domain (NoneChar, NoToken, NoneStr, ...).   *)
(* An exception is a record; a function that can raise returns a record    *)
(* with an err field, NoErr when it returned normally.                     *)
(***************************************************************************)
EXTENDS Integers, Sequences, FiniteSets, TLC

\* ------------------------------------------------------------------ bounds
\* Longest lexer input, in pieces of LexPieces.
MaxPieces == 3
\* Longest right-hand side of the generated assignment, in pieces of ExprPieces.
MaxExpr == 3
\* Longest generated statement list, in statements of StmtPieces.
MaxStmts == 2
\* Largest step count of a direct call of Lexer.advance.
MaxSteps == 2
\* Longest peek buffer the caller of Parser.peek builds.
MaxPeeked == 2
\* how many times evaluate() is called on one text
MaxRuns == 2
\* Longest generated calculator expression, in pieces of CalcPieces.
MaxCalc == 5
\* Most digits in a generated calculator expression: Python's ints are
\* unbounded, the numerals generated stay below 2^31.
MaxDigits == 9

\* ------------------------------------------------------- text and Python
Min(a, b) == IF a < b THEN a ELSE b
Max(a, b) == IF a > b THEN a ELSE b

\* Python's None where a string is expected (Token(EOF, None).value).
NoneStr == <<"None">>
\* Python's None where a character is expected (Lexer.current_char).
NoneChar == "None"

Digits == <<"0", "1", "2", "3", "4", "5", "6", "7", "8", "9">>
LowerLetters == <<"a", "b", "c", "d", "e", "f", "g", "h", "i", "j", "k", "l", "m",
                  "n", "o", "p", "q", "r", "s", "t", "u", "v", "w", "x", "y", "z">>
UpperLetters == <<"A", "B", "C", "D", "E", "F", "G", "H", "I", "J", "K", "L", "M",
                  "N", "O", "P", "Q", "R", "S", "T", "U", "V", "W", "X", "Y", "Z">>
Range(s) == {s[i] : i \in 1..Len(s)}
IndexOf(s, c) == CHOOSE i \in 1..Len(s) : s[i] = c

\* str.isdigit() of one character
IsDigit(c) == c \in Range(Digits)
\* the class \s of re (and the characters str.strip() removes)
IsSpace(c) == c \in {" ", "\t", "\n", "\r", "\f"}
\* the class [_a-z] that starts an identifier
IsIdentStart(c) == c = "_" \/ c \in Range(LowerLetters)
\* the class \w of re
IsWord(c) == c = "_" \/ c \in Range(LowerLetters) \/ c \in Range(UpperLetters) \/ IsDigit(c)

\* str.lower()
LowerChar(c) == IF c \in Range(UpperLetters) THEN LowerLetters[IndexOf(UpperLetters, c)] ELSE c
Lower(s) == [i \in 1..Len(s) |-> LowerChar(s[i])]

\* str.strip()
RECURSIVE LStrip(_)
LStrip(s) == IF s # <<>> /\ IsSpace(Head(s)) THEN LStrip(Tail(s)) ELSE s
RECURSIVE RStrip(_)
RStrip(s) == IF s # <<>> /\ IsSpace(s[Len(s)]) THEN RStrip(SubSeq(s, 1, Len(s) - 1)) ELSE s
Strip(s) == RStrip(LStrip(s))

\* s[a:b] of Python: a negative index counts from the end, and both are clamped.
SliceIndex(i, n) == IF i < 0 THEN Max(i + n, 0) ELSE Min(i, n)
PySlice(s, a, b) ==
  LET lo == SliceIndex(a, Len(s))
      hi == SliceIndex(b, Len(s))
  IN IF lo < hi THEN SubSeq(s, lo + 1, hi) ELSE <<>>
\* s[a:]
PySliceFrom(s, a) == PySlice(s, a, Len(s))

\* s.startswith(p)
StartsWith(s, p) == Len(p) <= Len(s) /\ SubSeq(s, 1, Len(p)) = p

\* the longest prefix of s whose characters all satisfy the class
RECURSIVE DigitRun(_)
DigitRun(s) == IF s # <<>> /\ IsDigit(Head(s)) THEN 1 + DigitRun(Tail(s)) ELSE 0
RECURSIVE WordRun(_)
WordRun(s) == IF s # <<>> /\ IsWord(Head(s)) THEN 1 + WordRun(Tail(s)) ELSE 0

\* the concatenation of a sequence of texts
RECURSIVE Flatten(_)
Flatten(ss) == IF ss = <<>> THEN <<>> ELSE Head(ss) \o Flatten(Tail(ss))

\* F(v) with v evaluated once: a local variable of the source
Let(v, F(_)) == CHOOSE y \in {F(r) : r \in {v}} : TRUE

\* ----------------------------------------------------------- exceptions
NoToken == [type |-> "None", value |-> NoneStr]
\* raise Exception(fmt.format(...)): fmt is the message template of the source,
\* tok, exp and txt its arguments (a token, a token kind, a text).  A built-in
\* exception of Python has its class as exc.
Raise(exc, fmt, tok, exp, txt) == [exc |-> exc, fmt |-> fmt, tok |-> tok, exp |-> exp, txt |-> txt]
NoErr == Raise("", "", NoToken, "", <<>>)
\* F(r) for the result r of a call, unless the call raised: the exception propagates
Try(r, F(_)) == CHOOSE y \in {IF x.err # NoErr THEN x ELSE F(x) : x \in {r}} : TRUE

\* ---------------------------------------------------------------- tokens
EOF == "EOF"
SEMI == "SEMI"
EMPTY == "EMPTY"
DOT == "DOT"
COMMENT == "COMMENT"
PROGRAM_START == "program"
BEGIN == "begin"
END == "end"
DECLARE_START == "var"
INT_DIV == "div"
INT_TYPE == "integer"
REAL_TYPE == "real"
INTEGER_CONST == "INTEGER_CONST"
REAL_CONST == "REAL_CONST"
VAR == "VAR"
ADD == "ADD"
SUB == "SUB"
MUL == "MUL"
FLOAT_DIV == "FLOAT_DIV"
ASSIGN == "ASSIGN"
COLON == "COLON"
COMMA == "COMMA"
UNARY_ADD == "UNARY_ADD"
UNARY_SUB == "UNARY_SUB"
COMPOUND == "COMPOUND"
L_PAR == "L_PAR"
R_PAR == "R_PAR"
BINARY_OP == {ADD, SUB, MUL, INT_DIV, FLOAT_DIV, ASSIGN, COLON, COMMA}
UNARY_OP == {UNARY_ADD, UNARY_SUB}
NARY_OP == {COMPOUND}

\* The keywords, as the text the lexer finds; a keyword token's type is that text.
KwProgram == <<"p", "r", "o", "g", "r", "a", "m">>
KwBegin == <<"b", "e", "g", "i", "n">>
KwEnd == <<"e", "n", "d">>
KwVar == <<"v", "a", "r">>
KwDiv == <<"d", "i", "v">>
KwInteger == <<"i", "n", "t", "e", "g", "e", "r">>
KwReal == <<"r", "e", "a", "l">>
KEY_WORDS == {KwProgram, KwBegin, KwEnd, KwVar, KwDiv, KwInteger, KwReal}
KeywordName(idf) ==
  CASE idf = KwProgram -> PROGRAM_START
    [] idf = KwBegin -> BEGIN
    [] idf = KwEnd -> END
    [] idf = KwVar -> DECLARE_START
    [] idf = KwDiv -> INT_DIV
    [] idf = KwInteger -> INT_TYPE
    [] idf = KwReal -> REAL_TYPE

Token(type, value) == [type |-> type, value |-> value]

\* ----------------------------------------------------------------- Lexer
\* Lexer.__init__
Lexer(text) ==
  LET t == Lower(Strip(text))
  IN [text |-> t, len |-> Len(t), pos |-> 0, current_token |-> NoToken, peeked |-> NoToken,
      clamped |-> FALSE]

\* Before Lexer(text) has run.
NoLexer ==
  [text |-> <<>>, len |-> 0, pos |-> 0, current_token |-> NoToken, peeked |-> NoToken,
   clamped |-> FALSE]

\* A fault: the rest of the text taken from one character too far.
non_scanned_skipping(lx) == PySliceFrom(lx.text, lx.pos + 1)

non_scanned(lx) == PySliceFrom(lx.text, lx.pos)

scanned(lx) == PySlice(lx.text, 0, lx.pos)

\* text[pos] raises IndexError for an index outside -len..len-1
IndexError(lx) == lx.pos < lx.len /\ lx.pos < 0 - lx.len
current_char(lx) ==
  IF lx.pos < lx.len
  THEN (IF lx.pos >= 0 THEN lx.text[lx.pos + 1] ELSE lx.text[lx.len + lx.pos + 1])
  ELSE NoneChar

\* Lexer.advance; clamped records whether the branch of line 124 has been
\* taken by an advance the lexer itself made, in get_next_token or comment.
advance(lx, steps) ==
  LET p == lx.pos + steps
  IN [lx EXCEPT !.pos = IF p > lx.len THEN lx.len - 1 ELSE p,
                !.clamped = @ \/ p > lx.len]

\* re.match(r'\d+\.\d+', s): the matched text, <<>> for no match
try_get_float(lx) ==
  LET s == non_scanned(lx)
      n == DigitRun(s)
      m == DigitRun(PySliceFrom(s, n + 1))
  IN IF n > 0 /\ Len(s) > n /\ s[n + 1] = "." /\ m > 0 THEN SubSeq(s, 1, n + 1 + m) ELSE <<>>

\* re.match(r'\d+', s)
try_get_int(lx) == LET s == non_scanned(lx) IN SubSeq(s, 1, DigitRun(s))

\* re.match(r'^[_a-z]\w*', s)
try_get_identifier(lx) ==
  LET s == non_scanned(lx)
  IN IF s # <<>> /\ IsIdentStart(Head(s)) THEN SubSeq(s, 1, WordRun(s)) ELSE <<>>

\* Lexer.peek: the lexer with self.peeked set and found TRUE, or found FALSE
Lexer_peek(lx) ==
  IF StartsWith(non_scanned(lx), <<":", "=">>)
  THEN [lx |-> [lx EXCEPT !.peeked = Token(ASSIGN, <<":", "=">>)], found |-> TRUE]
  ELSE IF IsDigit(current_char(lx))
  THEN LET real == try_get_float(lx)
       IN [lx |-> [lx EXCEPT !.peeked = IF real # <<>> THEN Token(REAL_CONST, real)
                                        ELSE Token(INTEGER_CONST, try_get_int(lx))],
           found |-> TRUE]
  ELSE LET idf == try_get_identifier(lx)
       IN IF idf # <<>>
          THEN [lx |-> [lx EXCEPT !.peeked = IF idf \in KEY_WORDS
                                             THEN Token(KeywordName(idf), idf)
                                             ELSE Token(VAR, idf)],
                found |-> TRUE]
          ELSE [lx |-> lx, found |-> FALSE]

\* the while loop of Lexer.comment
RECURSIVE comment_loop(_)
comment_loop(lx) ==
  IF current_char(lx) # NoneChar /\ current_char(lx) # "}"
  THEN Let(advance(lx, 1), LAMBDA l : comment_loop(l))
  ELSE lx

\* Lexer.comment: the lexer after the call, the text returned, the exception raised
comment(lx) ==
  IF IndexError(lx)
  THEN [lx |-> lx, value |-> NoneStr, err |-> Raise("IndexError", "", NoToken, "", <<>>)]
  ELSE Let(comment_loop(lx), LAMBDA l1 :
         IF current_char(l1) # NoneChar
         THEN Let(advance(l1, 1), LAMBDA l2 :
                [lx |-> l2, value |-> PySlice(l2.text, lx.pos, l2.pos + 1), err |-> NoErr])
         ELSE [lx |-> l1, value |-> NoneStr,
               err |-> Raise("Exception", "Invalid comment: {}", NoToken, "",
                             PySliceFrom(l1.text, lx.pos))])

\* the while loop of Lexer.get_next_token that skips blanks
RECURSIVE skip_blank(_)
skip_blank(lx) ==
  IF IsSpace(current_char(lx)) THEN Let(advance(lx, 1), LAMBDA l : skip_blank(l)) ELSE lx

\* Whether the + or - at the cursor is binary: lines 209 and 214.
IsBinaryContext(lx) ==
  lx.current_token # NoToken /\ lx.current_token.type \in {R_PAR, INTEGER_CONST, VAR}

\* The else branch of get_next_token: the token of a one-character operator.
single_char_token(lx) ==
  LET c == current_char(lx)
  IN CASE c = "+" -> IF IsBinaryContext(lx) THEN Token(ADD, <<"+">>) ELSE Token(UNARY_ADD, <<"+">>)
       [] c = "-" -> IF IsBinaryContext(lx) THEN Token(SUB, <<"-">>) ELSE Token(UNARY_SUB, <<"-">>)
       [] c = "*" -> Token(MUL, <<"*">>)
       [] c = "/" -> Token(FLOAT_DIV, <<"/">>)
       [] c = "(" -> Token(L_PAR, <<"(">>)
       [] c = ")" -> Token(R_PAR, <<")">>)
       [] c = "." -> Token(DOT, <<".">>)
       [] c = ";" -> Token(SEMI, <<";">>)
       [] c = "," -> Token(COMMA, <<",">>)
       [] c = ":" -> Token(COLON, <<":">>)
       [] OTHER -> NoToken

\* A fault: the comment returned as a token with the cursor left before it.
comment_token_staying(l1) ==
  Let(comment(l1), LAMBDA c :
    IF c.err # NoErr
    THEN [lx |-> c.lx, tok |-> NoToken, err |-> c.err]
    ELSE [lx |-> [l1 EXCEPT !.current_token = Token(COMMENT, c.value)],
          tok |-> Token(COMMENT, c.value), err |-> NoErr])

\* the comment branch of get_next_token: lines 200-202 and 237-239
comment_token(l1) ==
  Let(comment(l1), LAMBDA c :
    IF c.err # NoErr
    THEN [lx |-> c.lx, tok |-> NoToken, err |-> c.err]
    ELSE [lx |-> [c.lx EXCEPT !.current_token = Token(COMMENT, c.value)],
          tok |-> Token(COMMENT, c.value), err |-> NoErr])

\* A fault: the cursor moved one character past the token.
peeked_token_overrunning(p) ==
  Let(advance(p, Len(p.peeked.value) + 1), LAMBDA l2 :
    [lx |-> [l2 EXCEPT !.current_token = p.peeked], tok |-> p.peeked, err |-> NoErr])

\* the branch of get_next_token that peek() found a token for: lines 203-206
peeked_token(p) ==
  Let(advance(p, Len(p.peeked.value)), LAMBDA l2 :
    [lx |-> [l2 EXCEPT !.current_token = p.peeked], tok |-> p.peeked, err |-> NoErr])

\* A fault: the unreachable last line of get_next_token taken instead of the
\* error, an EOF token for a character of no token.
operator_token_ending(l1) ==
  Let(single_char_token(l1), LAMBDA t :
  Let(advance(l1, 1), LAMBDA l2 :
    IF t # NoToken
    THEN [lx |-> [l2 EXCEPT !.current_token = t], tok |-> t, err |-> NoErr]
    ELSE [lx |-> l2, tok |-> Token(EOF, NoneStr), err |-> NoErr]))

\* the else branch of get_next_token, and the error that ends it: lines 207-242
operator_token(l1) ==
  Let(single_char_token(l1), LAMBDA t :
  Let(advance(l1, 1), LAMBDA l2 :
    IF t # NoToken
    THEN [lx |-> [l2 EXCEPT !.current_token = t], tok |-> t, err |-> NoErr]
    ELSE [lx |-> l2, tok |-> NoToken,
          err |-> Raise("Exception", "Unrecognized char: {0}.", NoToken, "",
                        IF current_char(l2) = NoneChar THEN NoneStr ELSE <<current_char(l2)>>)]))

\* Lexer.get_next_token: the lexer after the call, the token returned (NoToken
\* when it raised), the exception raised.
Lexer_get_next_token(lx) ==
  IF IndexError(lx)
  THEN [lx |-> lx, tok |-> NoToken, err |-> Raise("IndexError", "", NoToken, "", <<>>)]
  ELSE IF current_char(lx) = NoneChar
  THEN [lx |-> lx, tok |-> Token(EOF, NoneStr), err |-> NoErr]
  ELSE Let(skip_blank(lx), LAMBDA l1 :
         IF current_char(l1) = "{"
         THEN comment_token(l1)
         ELSE Let(Lexer_peek(l1), LAMBDA p :
                IF p.found THEN peeked_token(p.lx) ELSE operator_token(l1)))

\* ------------------------------------------------------------------- AST
\* Python's None where an AST node is expected.
NoNode == [node |-> "None"]

\* Each constructor returns the node built and the exception its check raised.
Empty(token) == [node |-> [node |-> "Empty", token |-> token], err |-> NoErr]

Num(token) ==
  IF token.type \notin {INTEGER_CONST, REAL_CONST}
  THEN [node |-> NoNode,
        err |-> Raise("Exception", "Token mismatch: expected {0}, got {1}", token, INTEGER_CONST, <<>>)]
  ELSE [node |-> [node |-> "Num", token |-> token], err |-> NoErr]

Variable(token) ==
  IF token.type # VAR
  THEN [node |-> NoNode,
        err |-> Raise("Exception", "Token mismatch: expected {0}, got {1}", token, VAR, <<>>)]
  ELSE [node |-> [node |-> "Variable", token |-> token], err |-> NoErr]

\* The message template of line 283 names {1} with one argument: format() raises IndexError.
Type(token) ==
  IF token.type \notin {INT_TYPE, REAL_TYPE}
  THEN [node |-> NoNode, err |-> Raise("IndexError", "", NoToken, "", <<>>)]
  ELSE [node |-> [node |-> "Type", token |-> token], err |-> NoErr]

UnaryOp(token, operand) ==
  IF token.type \notin UNARY_OP
  THEN [node |-> NoNode,
        err |-> Raise("Exception", "Token mismatch: expected unary, got {}", token, "", <<>>)]
  ELSE [node |-> [node |-> "UnaryOp", token |-> token, operand |-> operand], err |-> NoErr]

BinaryOp(left, right, token) ==
  IF token.type \notin BINARY_OP
  THEN [node |-> NoNode,
        err |-> Raise("Exception", "Token mismatch: expected binary, got {}", token, "", <<>>)]
  ELSE [node |-> [node |-> "BinaryOp", left |-> left, right |-> right, token |-> token],
        err |-> NoErr]

CompoundOp(operands, token) ==
  IF token.type \notin NARY_OP
  THEN [node |-> NoNode,
        err |-> Raise("Exception", "Token mismatch: expected nary, got {}", token, "", <<>>)]
  ELSE [node |-> [node |-> "CompoundOp", operands |-> operands, token |-> token],
        err |-> NoErr]

\* ---------------------------------------------------------------- Parser
\* A parser is [lexer, current_token, peeked_tokens].  Every method returns
\* [ps, node, tok, err]: the parser after the call, the node or the token it
\* returned, and the exception it raised (NoErr when it returned).
Return(ps, node) == [ps |-> ps, node |-> node, tok |-> NoToken, err |-> NoErr]
ReturnToken(ps, tok) == [ps |-> ps, node |-> NoNode, tok |-> tok, err |-> NoErr]
Throw(ps, err) == [ps |-> ps, node |-> NoNode, tok |-> NoToken, err |-> err]
\* return C(...) for an AST constructor C
Construct(ps, c) == [ps |-> ps, node |-> c.node, tok |-> NoToken, err |-> c.err]

\* Parser.error
Parser_error(ps, fmt, tok, exp, txt) == Throw(ps, Raise("Exception", fmt, tok, exp, txt))

\* Before Parser(lexer) has run.
NoParser == [current_token |-> NoToken, peeked_tokens |-> <<>>]

\* Parser.get_next_token: the lexer's next token that is no comment
RECURSIVE Parser_get_next_token(_)
Parser_get_next_token(ps) ==
  Let(Lexer_get_next_token(ps.lexer), LAMBDA r :
    IF r.err # NoErr THEN Throw([ps EXCEPT !.lexer = r.lx], r.err)
    ELSE IF r.tok.type = COMMENT
    THEN Let([ps EXCEPT !.lexer = r.lx], LAMBDA p1 : Parser_get_next_token(p1))
    ELSE ReturnToken([ps EXCEPT !.lexer = r.lx], r.tok))

\* The token Parser.__init__ takes as current_token: line 361.
first_token(lx) == Lexer_get_next_token(lx)

\* Parser.__init__
Parser(lx) ==
  Let(first_token(lx), LAMBDA r :
    IF r.err # NoErr
    THEN Throw([lexer |-> r.lx, current_token |-> NoToken, peeked_tokens |-> <<>>], r.err)
    ELSE ReturnToken([lexer |-> r.lx, current_token |-> r.tok, peeked_tokens |-> <<>>], r.tok))

eat_consuming(ps, token_type) ==
  IF ps.peeked_tokens # <<>>
  THEN ReturnToken([ps EXCEPT !.current_token = Head(ps.peeked_tokens),
                              !.peeked_tokens = Tail(ps.peeked_tokens)], ps.current_token)
  ELSE Try(Parser_get_next_token(ps), LAMBDA r :
         ReturnToken([r.ps EXCEPT !.current_token = r.tok], ps.current_token))

\* Parser.eat
eat(ps, token_type) ==
  IF ps.current_token.type = token_type
  THEN IF ps.peeked_tokens # <<>>
       THEN ReturnToken([ps EXCEPT !.current_token = Head(ps.peeked_tokens),
                                   !.peeked_tokens = Tail(ps.peeked_tokens)], ps.current_token)
       ELSE Try(Parser_get_next_token(ps), LAMBDA r :
              ReturnToken([r.ps EXCEPT !.current_token = r.tok], ps.current_token))
  ELSE Parser_error(ps, "Unexpected token: {0}. Expected: {1}", ps.current_token, token_type, <<>>)

Parser_peek_pushing(ps) ==
  Try(Parser_get_next_token(ps), LAMBDA r :
    ReturnToken([r.ps EXCEPT !.peeked_tokens = <<r.tok>> \o r.ps.peeked_tokens], r.tok))

\* Parser.peek
Parser_peek(ps) ==
  Try(Parser_get_next_token(ps), LAMBDA r :
    ReturnToken([r.ps EXCEPT !.peeked_tokens = Append(r.ps.peeked_tokens, r.tok)], r.tok))

RECURSIVE program(_), block(_), declarations(_), declarations_loop(_, _), var_declarations(_)
RECURSIVE var_declarations_loop(_, _), compound_statement(_), statement_list(_, _), statement(_)
RECURSIVE assignment(_), expr(_), expr_loop(_, _), term(_), term_loop(_, _), factor(_)

\* Parser.parse
parse(ps) == program(ps)

program(ps) ==
  IF ps.current_token.type # PROGRAM_START
  THEN Parser_error(ps, "Program not defined", NoToken, "", <<>>)
  ELSE Try(eat(ps, PROGRAM_START), LAMBDA e1 :
       Try(eat(e1.ps, VAR), LAMBDA e2 :
       Try(eat(e2.ps, SEMI), LAMBDA e3 :
       Try(block(e3.ps), LAMBDA root :
       Try(eat(root.ps, DOT), LAMBDA e4 : Return(e4.ps, root.node))))))

block(ps) ==
  Try(declarations(ps), LAMBDA dec :
  Try(compound_statement(dec.ps), LAMBDA comp :
    Construct(comp.ps, CompoundOp(<<dec.node, comp.node>>, Token(COMPOUND, KwProgram)))))

declarations(ps) ==
  Try(eat(ps, DECLARE_START), LAMBDA e1 :
  Try(var_declarations(e1.ps), LAMBDA element :
  Try(eat(element.ps, SEMI), LAMBDA e2 : declarations_loop(e2.ps, <<element.node>>))))

\* the while loop of Parser.declarations, and its return
declarations_loop(ps, operands) ==
  IF ps.current_token.type = VAR
  THEN Try(var_declarations(ps), LAMBDA element :
       Try(eat(element.ps, SEMI), LAMBDA e :
         declarations_loop(e.ps, Append(operands, element.node))))
  ELSE Construct(ps, CompoundOp(operands, Token(COMPOUND, <<"V", "A", "R">>)))

\* Parser.variable
variable(ps) == Try(eat(ps, VAR), LAMBDA e : Construct(e.ps, Variable(e.tok)))

\* Parser.type_name
type_name(ps) ==
  IF ps.current_token.type \in {INT_TYPE, REAL_TYPE}
  THEN Try(eat(ps, ps.current_token.type), LAMBDA e : Construct(e.ps, Type(e.tok)))
  ELSE Parser_error(ps, "Unknown type: {}", NoToken, "", ps.current_token.value)

var_declarations(ps) ==
  Try(variable(ps), LAMBDA left : var_declarations_loop(left.ps, left.node))

\* the while loop of Parser.var_declarations, and what follows it
var_declarations_loop(ps, left) ==
  IF ps.current_token.type = COMMA
  THEN Try(eat(ps, COMMA), LAMBDA op :
       Try(variable(op.ps), LAMBDA right :
       Try(Construct(right.ps, BinaryOp(left, right.node, op.tok)), LAMBDA b :
         var_declarations_loop(b.ps, b.node))))
  ELSE Try(eat(ps, COLON), LAMBDA op :
       Try(type_name(op.ps), LAMBDA typename :
         Construct(typename.ps, BinaryOp(left, typename.node, op.tok))))

\* A fault: the Empty statements left out of the list.
compound_statement_pruning(ps) ==
  Try(eat(ps, BEGIN), LAMBDA e1 :
  Try(statement_list(e1.ps, <<>>), LAMBDA sl :
  Try(eat(sl.ps, END), LAMBDA e2 :
    Construct(e2.ps, CompoundOp(SelectSeq(sl.node.operands, LAMBDA n : n.node # "Empty"),
                                Token(COMPOUND, <<"C", "O", "M", "P", "O", "U", "N", "D">>))))))

compound_statement(ps) ==
  Try(eat(ps, BEGIN), LAMBDA e1 :
  Try(statement_list(e1.ps, <<>>), LAMBDA sl :
  Try(eat(sl.ps, END), LAMBDA e2 :
    Construct(e2.ps, CompoundOp(sl.node.operands,
                                Token(COMPOUND, <<"C", "O", "M", "P", "O", "U", "N", "D">>))))))

\* Parser.statement_list: st_list, the caller's list, comes back as the
\* operands of the node field
statement_list(ps, st_list) ==
  Try(statement(ps), LAMBDA st :
    IF st.ps.current_token.type # SEMI
    THEN Return(st.ps, [node |-> "list", operands |-> Append(st_list, st.node)])
    ELSE Try(eat(st.ps, SEMI), LAMBDA e : statement_list(e.ps, Append(st_list, st.node))))

\* Parser.empty
empty(ps) == Construct(ps, Empty(Token(EMPTY, <<"E", "M", "P", "T", "Y">>)))

statement(ps) ==
  IF ps.current_token.type = BEGIN THEN compound_statement(ps)
  ELSE IF ps.current_token.type = VAR THEN assignment(ps)
  ELSE empty(ps)

assignment(ps) ==
  Try(variable(ps), LAMBDA var :
  Try(eat(var.ps, ASSIGN), LAMBDA assign_token :
  Try(expr(assign_token.ps), LAMBDA right_operand :
    Construct(right_operand.ps, BinaryOp(var.node, right_operand.node, assign_token.tok)))))

expr(ps) == Try(term(ps), LAMBDA left : expr_loop(left.ps, left.node))

\* the while loop of Parser.expr, and its return
expr_loop(ps, left) ==
  IF ps.current_token # NoToken /\ ps.current_token.type \in {ADD, SUB}
  THEN Try(eat(ps, ps.current_token.type), LAMBDA e :
       Try(term(e.ps), LAMBDA right :
       Try(Construct(right.ps, BinaryOp(left, right.node, e.tok)), LAMBDA b :
         expr_loop(b.ps, b.node))))
  ELSE Return(ps, left)

term(ps) == Try(factor(ps), LAMBDA left : term_loop(left.ps, left.node))

\* the while loop of Parser.term, and its return
term_loop(ps, left) ==
  IF ps.current_token.type \in {MUL, INT_DIV, FLOAT_DIV}
  THEN Try(eat(ps, ps.current_token.type), LAMBDA e :
       Try(factor(e.ps), LAMBDA right :
       Try(Construct(right.ps, BinaryOp(left, right.node, e.tok)), LAMBDA b :
         term_loop(b.ps, b.node))))
  ELSE Return(ps, left)

\* What factor calls between the parentheses: self.parse(), line 550.
factor_inner(ps) == parse(ps)

factor(ps) ==
  IF ps.current_token.type \in {INTEGER_CONST, REAL_CONST}
  THEN Try(eat(ps, ps.current_token.type), LAMBDA e : Construct(e.ps, Num(e.tok)))
  ELSE IF ps.current_token.type = VAR
  THEN Try(eat(ps, VAR), LAMBDA e : Construct(e.ps, Variable(e.tok)))
  ELSE IF ps.current_token.type = L_PAR
  THEN Try(eat(ps, L_PAR), LAMBDA e1 :
       Try(factor_inner(e1.ps), LAMBDA node :
       Try(eat(node.ps, R_PAR), LAMBDA e2 : Return(e2.ps, node.node))))
  ELSE IF ps.current_token.type \in {UNARY_ADD, UNARY_SUB}
  THEN Try(eat(ps, ps.current_token.type), LAMBDA e :
       Try(factor(e.ps), LAMBDA operand : Construct(operand.ps, UnaryOp(e.tok, operand.node))))
  ELSE Parser_error(ps, "Unmatched parentheses", NoToken, "", <<>>)

\* ---------------------------------------------------------------- values
\* A Python value the interpreter handles: an int, a float, None, a str or a
\* list of names.  A float is the exact rational n/d in lowest terms (d > 0):
\* the rounding of IEEE doubles is not modelled.
IntV(i) == [t |-> "int", n |-> i, d |-> 1, s |-> <<>>]
RealRaw(n, d) == [t |-> "float", n |-> n, d |-> d, s |-> <<>>]
NoneV == [t |-> "None", n |-> 0, d |-> 1, s |-> <<>>]
StrV(s) == [t |-> "str", n |-> 0, d |-> 1, s |-> s]
\* a list of names: s holds the names
ListV(names) == [t |-> "list", n |-> 0, d |-> 1, s |-> names]

Abs(i) == IF i < 0 THEN 0 - i ELSE i
RECURSIVE GCD(_, _)
GCD(a, b) == IF b = 0 THEN a ELSE GCD(b, a % b)
\* the float n/d (d # 0)
RealV(n, d) ==
  LET g == GCD(Abs(n), Abs(d))
      sg == IF d < 0 THEN 0 - 1 ELSE 1
  IN RealRaw((sg * n) \div g, (sg * d) \div g)

IsNumber(v) == v.t \in {"int", "float"}
TypeError == Raise("TypeError", "", NoToken, "", <<>>)
ZeroDivisionError == Raise("ZeroDivisionError", "", NoToken, "", <<>>)

\* A fault: a quotient rounded toward zero.
FloorDiv_truncating(a, b) ==
  IF (a < 0) = (b < 0) THEN Abs(a) \div Abs(b) ELSE 0 - (Abs(a) \div Abs(b))

\* floor(a / b) for any sign of b (b # 0): Python 2's / on two ints
FloorDiv(a, b) == IF b > 0 THEN a \div b ELSE (0 - a) \div (0 - b)

DigitValue(c) == IndexOf(Digits, c) - 1
\* int(s) for a text of digits
RECURSIVE StrToInt(_)
StrToInt(s) ==
  IF s = <<>> THEN 0 ELSE 10 * StrToInt(SubSeq(s, 1, Len(s) - 1)) + DigitValue(s[Len(s)])
RECURSIVE Pow10(_)
Pow10(k) == IF k = 0 THEN 1 ELSE 10 * Pow10(k - 1)
\* float(s) for a text digits.digits
StrToFloat(s) ==
  LET n == DigitRun(s)
      frac == PySliceFrom(s, n + 1)
  IN RealV(StrToInt(SubSeq(s, 1, n) \o frac), Pow10(Len(frac)))

\* s * k for a str s
RECURSIVE Repeat(_, _)
Repeat(s, k) == IF k <= 0 THEN <<>> ELSE s \o Repeat(s, k - 1)

\* Each operator returns the value and the exception raised.
Value(v) == [val |-> v, err |-> NoErr]
Fault(e) == [val |-> NoneV, err |-> e]

\* lambda x,y: x+y
op_ADD(x, y) ==
  IF x.t = "int" /\ y.t = "int" THEN Value(IntV(x.n + y.n))
  ELSE IF IsNumber(x) /\ IsNumber(y) THEN Value(RealV(x.n * y.d + y.n * x.d, x.d * y.d))
  ELSE IF x.t = "str" /\ y.t = "str" THEN Value(StrV(x.s \o y.s))
  ELSE Fault(TypeError)

\* lambda x,y: x-y
\* A fault: a subtraction that adds.
op_SUB_adding(x, y) == op_ADD(x, y)

op_SUB(x, y) ==
  IF x.t = "int" /\ y.t = "int" THEN Value(IntV(x.n - y.n))
  ELSE IF IsNumber(x) /\ IsNumber(y) THEN Value(RealV(x.n * y.d - y.n * x.d, x.d * y.d))
  ELSE Fault(TypeError)

\* lambda x,y: x*y
op_MUL(x, y) ==
  IF x.t = "int" /\ y.t = "int" THEN Value(IntV(x.n * y.n))
  ELSE IF IsNumber(x) /\ IsNumber(y) THEN Value(RealV(x.n * y.n, x.d * y.d))
  ELSE IF x.t = "str" /\ y.t = "int" THEN Value(StrV(Repeat(x.s, y.n)))
  ELSE IF x.t = "int" /\ y.t = "str" THEN Value(StrV(Repeat(y.s, x.n)))
  ELSE Fault(TypeError)

\* x/y of Python 2: floor division of two ints, true division with a float
PyDiv(x, y) ==
  IF ~(IsNumber(x) /\ IsNumber(y)) THEN Fault(TypeError)
  ELSE IF y.n = 0 THEN Fault(ZeroDivisionError)
  ELSE IF x.t = "int" /\ y.t = "int" THEN Value(IntV(FloorDiv(x.n, y.n)))
  ELSE Value(RealV(x.n * y.d, x.d * y.n))

\* lambda x,y: x/y
op_INT_DIV(x, y) == PyDiv(x, y)

\* A fault: / without the conversion to float, lambda x,y: x/y.
op_FLOAT_DIV_unconverted(x, y) == PyDiv(x, y)

\* lambda x,y: (x*1.0)/y
op_FLOAT_DIV(x, y) ==
  IF ~IsNumber(x) THEN Fault(TypeError) ELSE PyDiv(RealRaw(x.n, x.d), y)

\* lambda x: -x
op_UNARY_SUB(x) ==
  IF x.t = "int" THEN Value(IntV(0 - x.n))
  ELSE IF x.t = "float" THEN Value(RealRaw(0 - x.n, x.d))
  ELSE Fault(TypeError)

\* lambda x: x
op_UNARY_ADD(x) == Value(x)

\* ----------------------------------------------------------- SymbolTable
\* SymbolTable.table: name -> [type, value], the two-element list of the source
EmptyTable == [name \in {} |-> [type |-> NoneV, value |-> NoneV]]
\* dict.setdefault(var_name, [None, None])
setdefault(table, var_name) ==
  IF var_name \in DOMAIN table THEN table
  ELSE [name \in DOMAIN table \cup {var_name} |->
          IF name = var_name THEN [type |-> NoneV, value |-> NoneV] ELSE table[name]]

\* A fault: assign that replaces the entry, self.table[var_name] = [None, value].
SymbolTable_assign_replacing(table, var_name, value) ==
  [name \in DOMAIN table \cup {var_name} |->
     IF name = var_name THEN [type |-> NoneV, value |-> value] ELSE table[name]]

\* A fault: declare that replaces the entry, self.table[var_name] = [type_name, None].
SymbolTable_declare_replacing(table, var_name, typename) ==
  [name \in DOMAIN table \cup {var_name} |->
     IF name = var_name THEN [type |-> typename, value |-> NoneV] ELSE table[name]]

\* SymbolTable.assign: the table after the call (the call returns value)
SymbolTable_assign(table, var_name, value) ==
  [setdefault(table, var_name) EXCEPT ![var_name].value = value]

\* SymbolTable.declare
SymbolTable_declare(table, var_name, typename) ==
  [setdefault(table, var_name) EXCEPT ![var_name].type = typename]

\* Whether SymbolTable.lookup finds var_name (line 337).
SymbolTable_found(table, var_name) == var_name \in DOMAIN table

\* A fault: a lookup that answers [None, None] for a name the table lacks.
SymbolTable_lookup_defaulting(table, var_name) ==
  [entry |-> setdefault(table, var_name)[var_name], err |-> NoErr]

\* SymbolTable.lookup: the entry, or the exception
SymbolTable_lookup(table, var_name) ==
  IF ~SymbolTable_found(table, var_name)
  THEN [entry |-> [type |-> NoneV, value |-> NoneV],
        err |-> Raise("Exception", "Name {} is not defined", NoToken, "", var_name)]
  ELSE [entry |-> table[var_name], err |-> NoErr]

\* json.dumps of one value, as the JSON value it writes
JsonValue(v) ==
  CASE v.t = "None" -> [json |-> "null", n |-> 0, d |-> 1, s |-> <<>>]
    [] v.t = "int" -> [json |-> "integer", n |-> v.n, d |-> 1, s |-> <<>>]
    [] v.t = "float" -> [json |-> "real", n |-> v.n, d |-> v.d, s |-> <<>>]
    [] v.t = "str" -> [json |-> "string", n |-> 0, d |-> 1, s |-> v.s]

\* SymbolTable.getSymbols: the JSON object, name -> [type, value]
SymbolTable_getSymbols(table) ==
  [name \in DOMAIN table |-> <<JsonValue(table[name].type), JsonValue(table[name].value)>>]

\* ----------------------------------------------------------- Interpreter
\* Every visit returns [val, table, err]: the value returned, the symbol table
\* after the call and the exception raised.
Visited(v, table) == [val |-> v, table |-> table, err |-> NoErr]
Aborted(table, e) == [val |-> NoneV, table |-> table, err |-> e]
\* return op(...) for an operator result r
Applied(r, table) == [val |-> r.val, table |-> table, err |-> r.err]

\* Interpreter.lookup
Interpreter_lookup(table, var_name) ==
  LET r == SymbolTable_lookup(table, var_name)
  IN IF r.err # NoErr THEN Aborted(table, r.err) ELSE Visited(r.entry.value, table)

\* Interpreter.save
Interpreter_save(table, var_name, value) ==
  Visited(value, SymbolTable_assign(table, var_name, value))

\* Interpreter.declare
Interpreter_declare(table, var_name, typename) == SymbolTable_declare(table, var_name, typename)

\* visit_Empty
visit_Empty(ast, table) == Visited(StrV(ast.token.value), table)

\* visit_Type
visit_Type(ast, table) == Visited(StrV(ast.token.value), table)

\* visit_Num
visit_Num(ast, table) ==
  IF ast.token.type = INTEGER_CONST THEN Visited(IntV(StrToInt(ast.token.value)), table)
  ELSE IF ast.token.type = REAL_CONST THEN Visited(StrToFloat(ast.token.value), table)
  ELSE Aborted(table, Raise("AttributeError", "", NoToken, "", <<>>))

visit_Variable_looking_up(ast, table) ==
  LET r == SymbolTable_lookup(table, ast.token.value)
  IN IF r.err # NoErr THEN Aborted(table, r.err) ELSE Visited(StrV(ast.token.value), table)

\* visit_Variable: the bare name
visit_Variable(ast, table) == Visited(StrV(ast.token.value), table)

\* the value of an operand already visited: the lookup the callers make when
\* the operand is a Variable (lines 682, 694, 736, 739)
value_of(operand, r) ==
  IF r.err # NoErr THEN r
  ELSE IF operand.node = "Variable" THEN Interpreter_lookup(r.table, r.val.s)
  ELSE r

\* comma of visit_BinaryOp
comma(x, y) ==
  IF x.t = "list" /\ y.t = "list" THEN ListV(x.s \o y.s)
  ELSE IF x.t = "list" THEN ListV(Append(x.s, y.s))
  ELSE IF y.t = "list" THEN ListV(Append(y.s, x.s))
  ELSE ListV(<<x.s, y.s>>)

\* the for loop of colon
RECURSIVE declare_each(_, _, _)
declare_each(table, names, y) ==
  IF names = <<>> THEN table
  ELSE declare_each(Interpreter_declare(table, Head(names), y), Tail(names), y)

\* colon of visit_BinaryOp: the table after the declarations
colon(table, x, y) ==
  IF x.t = "list" THEN declare_each(table, x.s, y) ELSE Interpreter_declare(table, x.s, y)

RECURSIVE visit(_, _), visit_UnaryOp(_, _), visit_BinaryOp(_, _), visit_CompoundOp(_, _)
RECURSIVE visit_operands(_, _, _)

visit_UnaryOp(ast, table) ==
  IF ast.token.type \notin {UNARY_SUB, UNARY_ADD}
  THEN Aborted(table, Raise("Exception", "Unknown token: ", NoToken, "", <<>>))
  ELSE LET value == value_of(ast.operand, visit(ast.operand, table))
       IN IF value.err # NoErr THEN value
          ELSE Applied(IF ast.token.type = UNARY_SUB THEN op_UNARY_SUB(value.val)
                       ELSE op_UNARY_ADD(value.val), value.table)

\* op(left, right) for an arithmetic token
apply_op(type, x, y) ==
  CASE type = ADD -> op_ADD(x, y)
    [] type = SUB -> op_SUB(x, y)
    [] type = MUL -> op_MUL(x, y)
    [] type = INT_DIV -> op_INT_DIV(x, y)
    [] type = FLOAT_DIV -> op_FLOAT_DIV(x, y)

visit_BinaryOp(ast, table) ==
  LET token == ast.token
  IN IF token.type = ASSIGN
     THEN LET left == visit(ast.left, table) IN IF left.err # NoErr THEN left ELSE
          LET right == value_of(ast.right, visit(ast.right, left.table))
          IN IF right.err # NoErr THEN right ELSE
             Interpreter_save(right.table, left.val.s, right.val)
     ELSE IF token.type = COMMA
     THEN LET left == visit(ast.left, table) IN IF left.err # NoErr THEN left ELSE
          LET right == visit(ast.right, left.table) IN IF right.err # NoErr THEN right ELSE
          Visited(comma(left.val, right.val), right.table)
     ELSE IF token.type = COLON
     THEN LET left == visit(ast.left, table) IN IF left.err # NoErr THEN left ELSE
          LET right == visit(ast.right, left.table) IN IF right.err # NoErr THEN right ELSE
          Visited(NoneV, colon(right.table, left.val, right.val))
     ELSE IF token.type \notin {ADD, SUB, MUL, INT_DIV, FLOAT_DIV}
     THEN Aborted(table, Raise("Exception", "Unknown token: {}", token, "", <<>>))
     ELSE LET left == value_of(ast.left, visit(ast.left, table))
          IN IF left.err # NoErr THEN left ELSE
             LET right == value_of(ast.right, visit(ast.right, left.table))
             IN IF right.err # NoErr THEN right ELSE
                Applied(apply_op(token.type, left.val, right.val), right.table)

RECURSIVE visit_operands_backwards(_, _, _)
visit_operands_backwards(operands, table, value) ==
  IF operands = <<>> THEN Visited(value, table)
  ELSE LET r == visit(operands[Len(operands)], table)
       IN IF r.err # NoErr THEN r
          ELSE visit_operands_backwards(SubSeq(operands, 1, Len(operands) - 1), r.table, r.val)

\* the for loop of visit_CompoundOp: value is the value of the last operand
visit_operands(operands, table, value) ==
  IF operands = <<>> THEN Visited(value, table)
  ELSE LET r == visit(Head(operands), table)
       IN IF r.err # NoErr THEN r ELSE visit_operands(Tail(operands), r.table, r.val)

\* With no operand the local `value` is unbound at the return of line 749.
visit_CompoundOp(ast, table) ==
  IF ast.token.type # COMPOUND
  THEN Aborted(table, Raise("Exception", "Unknown token: {}", ast.token, "", <<>>))
  ELSE IF ast.operands = <<>>
  THEN Aborted(table, Raise("UnboundLocalError", "", NoToken, "", <<>>))
  ELSE visit_operands(ast.operands, table, NoneV)

\* NodeVisitor.visit as the Interpreter inherits it: getattr finds visit_<class>
visit(ast, table) ==
  CASE ast.node = "Empty" -> visit_Empty(ast, table)
    [] ast.node = "Type" -> visit_Type(ast, table)
    [] ast.node = "Num" -> visit_Num(ast, table)
    [] ast.node = "Variable" -> visit_Variable(ast, table)
    [] ast.node = "UnaryOp" -> visit_UnaryOp(ast, table)
    [] ast.node = "BinaryOp" -> visit_BinaryOp(ast, table)
    [] ast.node = "CompoundOp" -> visit_CompoundOp(ast, table)
    [] OTHER -> Aborted(table, Raise("AttributeError", "", NoToken, "", <<>>))

\* Interpreter.kickoff
kickoff(ast, table) == visit(ast, table)

\* RPNConverter and ListExpressionConverter of spi.py.  NodeVisitor.visit
\* looks the handler up by the name of the node's class, and getattr raises
\* AttributeError for a class the converter has no visit_ method for.  Every
\* visit returns the text and the exception raised.
NoHandler == Fault(Raise("AttributeError", "", NoToken, "", <<>>))
Rendered(s) == [val |-> s, err |-> NoErr]

RECURSIVE Spi_RPN_visit(_)
Spi_RPN_visit_BinaryOp(ast) ==
  Try(Spi_RPN_visit(ast.left), LAMBDA left :
  Try(Spi_RPN_visit(ast.right), LAMBDA right :
    Rendered(left.val \o <<" ">> \o right.val \o <<" ">> \o ast.token.value)))

Spi_RPN_visit_UnaryOp(ast) ==
  Try(Spi_RPN_visit(ast.operand), LAMBDA operand :
    Rendered(operand.val \o <<" ">> \o ast.token.value))

Spi_RPN_visit_Num(ast) == Rendered(ast.token.value)

\* NodeVisitor.visit of an RPNConverter
Spi_RPN_visit(ast) ==
  CASE ast.node = "BinaryOp" -> Spi_RPN_visit_BinaryOp(ast)
    [] ast.node = "UnaryOp" -> Spi_RPN_visit_UnaryOp(ast)
    [] ast.node = "Num" -> Spi_RPN_visit_Num(ast)
    [] OTHER -> NoHandler

\* RPNConverter(ast).get_rpn()
Spi_get_rpn(ast) == Spi_RPN_visit(ast)

RECURSIVE Spi_List_visit(_)
Spi_List_visit_Num(ast) == Rendered(ast.token.value)

Spi_List_visit_UnaryOp(ast) ==
  Try(Spi_List_visit(ast.operand), LAMBDA operand :
    Rendered(<<"(">> \o ast.token.value \o <<" ">> \o operand.val \o <<")">>))

Spi_List_visit_BinaryOp(ast) ==
  Try(Spi_List_visit(ast.left), LAMBDA left :
  Try(Spi_List_visit(ast.right), LAMBDA right :
    Rendered(<<"(">> \o ast.token.value \o <<" ">> \o left.val \o <<" ">> \o right.val \o <<")">>)))

\* NodeVisitor.visit of a ListExpressionConverter
Spi_List_visit(ast) ==
  CASE ast.node = "BinaryOp" -> Spi_List_visit_BinaryOp(ast)
    [] ast.node = "UnaryOp" -> Spi_List_visit_UnaryOp(ast)
    [] ast.node = "Num" -> Spi_List_visit_Num(ast)
    [] OTHER -> NoHandler

\* ListExpressionConverter(ast).get_list_expr()
Spi_get_list_expr(ast) == Spi_List_visit(ast)

\* ===================================================== simple_calculator.py
\* The integer calculator that UnitTest.py's renderer tests run.  Its token
\* kinds EOF, ADD, SUB, MUL, L_PAR, R_PAR, UNARY_ADD and UNARY_SUB are the
\* strings of the same names above; INTEGER and DIV are its own.
INTEGER == "INTEGER"
DIV == "DIV"

\* Python's None where a calculator token is expected.  A calculator token's
\* value is an int (INTEGER), a str (an operator) or None (EOF).
Calc_NoToken == Token("None", NoneV)

\* str(n) for an int n
RECURSIVE IntToStr(_)
IntToStr(n) ==
  IF n < 0 THEN <<"-">> \o IntToStr(0 - n)
  ELSE IF n < 10 THEN <<Digits[n + 1]>>
  ELSE IntToStr(n \div 10) \o <<Digits[(n % 10) + 1]>>

\* '{0}'.format(v)
format(v) ==
  CASE v.t = "int" -> IntToStr(v.n)
    [] v.t = "str" -> v.s
    [] v.t = "None" -> NoneStr

\* Lexer.del_spaces
del_spaces(text) == SelectSeq(text, LAMBDA c : ~IsSpace(c))

\* Lexer.__init__
Calc_Lexer(text) ==
  Let(del_spaces(text), LAMBDA t :
    [text |-> t, len |-> Len(t), pos |-> 0, current_token |-> Calc_NoToken])

Calc_current_char(lx) == IF lx.pos < lx.len THEN lx.text[lx.pos + 1] ELSE NoneChar

Calc_advance(lx) == [lx EXCEPT !.pos = lx.pos + 1]

\* Lexer.integer: the lexer after the digits, and the int they denote
integer(lx) ==
  Let(DigitRun(PySliceFrom(lx.text, lx.pos)), LAMBDA k :
    [lx |-> [lx EXCEPT !.pos = lx.pos + k],
     value |-> IntV(StrToInt(PySlice(lx.text, lx.pos, lx.pos + k)))])

\* Whether the + or - at the cursor is binary.
Calc_IsBinaryContext(lx) == lx.current_token.type \in {R_PAR, INTEGER}

\* The else branch of get_next_token: the token of a one-character operator.
Calc_single_char_token(lx) ==
  LET c == Calc_current_char(lx)
  IN CASE c = "+" -> IF Calc_IsBinaryContext(lx) THEN Token(ADD, StrV(<<"+">>))
                     ELSE Token(UNARY_ADD, StrV(<<"+">>))
       [] c = "-" -> IF Calc_IsBinaryContext(lx) THEN Token(SUB, StrV(<<"-">>))
                     ELSE Token(UNARY_SUB, StrV(<<"-">>))
       [] c = "*" -> Token(MUL, StrV(<<"*">>))
       [] c = "/" -> Token(DIV, StrV(<<"/">>))
       [] c = "(" -> Token(L_PAR, StrV(<<"(">>))
       [] c = ")" -> Token(R_PAR, StrV(<<")">>))
       [] OTHER -> Calc_NoToken

\* Lexer.get_next_token: the lexer after the call, the token returned, the
\* exception raised.
Calc_get_next_token(lx) ==
  IF Calc_current_char(lx) = NoneChar
  THEN [lx |-> lx, tok |-> Token(EOF, NoneV), err |-> NoErr]
  ELSE IF IsDigit(Calc_current_char(lx))
  THEN Let(integer(lx), LAMBDA i :
         [lx |-> [i.lx EXCEPT !.current_token = Token(INTEGER, i.value)],
          tok |-> Token(INTEGER, i.value), err |-> NoErr])
  ELSE Let(Calc_single_char_token(lx), LAMBDA t :
       Let(Calc_advance(lx), LAMBDA l2 :
         IF t # Calc_NoToken
         THEN [lx |-> [l2 EXCEPT !.current_token = t], tok |-> t, err |-> NoErr]
         ELSE [lx |-> l2, tok |-> Calc_NoToken,
               err |-> Raise("Exception", "Unrecognized char: {0}", NoToken, "",
                             IF Calc_current_char(l2) = NoneChar THEN NoneStr
                             ELSE <<Calc_current_char(l2)>>)]))

\* The AST classes: BinaryOp, Num, UnaryOp.
Calc_BinaryOp(left, right, op) == [node |-> "BinaryOp", token |-> op, left |-> left, right |-> right]
Calc_Num(token) == [node |-> "Num", token |-> token]
Calc_UnaryOp(token, operand) == [node |-> "UnaryOp", token |-> token, operand |-> operand]

\* Before Parser(lexer) has run.
Calc_NoParser == [current_token |-> Calc_NoToken]

\* Parser.__init__
Calc_Parser(lexer) ==
  Let(Calc_get_next_token(lexer), LAMBDA r :
    IF r.err # NoErr THEN Throw([lexer |-> r.lx, current_token |-> Calc_NoToken], r.err)
    ELSE Return([lexer |-> r.lx, current_token |-> r.tok], NoNode))

\* Parser.eat, which returns None
Calc_eat(ps, token_type) ==
  IF ps.current_token.type = token_type
  THEN Let(Calc_get_next_token(ps.lexer), LAMBDA r :
         IF r.err # NoErr THEN Throw([ps EXCEPT !.lexer = r.lx], r.err)
         ELSE Return([lexer |-> r.lx, current_token |-> r.tok], NoNode))
  ELSE Parser_error(ps, "Unexpected token: {0}. Expected: {1}",
                    Token(ps.current_token.type, format(ps.current_token.value)),
                    token_type, <<>>)

RECURSIVE Calc_term(_), Calc_term_loop(_, _), Calc_factor(_), Calc_parse(_), Calc_parse_loop(_, _)

Calc_term(ps) == Try(Calc_factor(ps), LAMBDA left : Calc_term_loop(left.ps, left.node))

\* the while loop of Parser.term, and its return
Calc_term_loop(ps, left) ==
  IF ps.current_token.type \in {MUL, DIV}
  THEN Try(Calc_eat(ps, ps.current_token.type), LAMBDA e :
       Try(Calc_factor(e.ps), LAMBDA right :
         Calc_term_loop(right.ps, Calc_BinaryOp(left, right.node, ps.current_token))))
  ELSE Return(ps, left)

Calc_factor(ps) ==
  IF ps.current_token.type = INTEGER
  THEN Try(Calc_eat(ps, INTEGER), LAMBDA e : Return(e.ps, Calc_Num(ps.current_token)))
  ELSE IF ps.current_token.type = L_PAR
  THEN Try(Calc_eat(ps, L_PAR), LAMBDA e1 :
       Try(Calc_parse(e1.ps), LAMBDA inner :
       Try(Calc_eat(inner.ps, R_PAR), LAMBDA e2 : Return(e2.ps, inner.node))))
  ELSE IF ps.current_token.type \in {UNARY_ADD, UNARY_SUB}
  THEN Try(Calc_eat(ps, ps.current_token.type), LAMBDA e :
       Try(Calc_factor(e.ps), LAMBDA operand :
         Return(operand.ps, Calc_UnaryOp(ps.current_token, operand.node))))
  ELSE Parser_error(ps, "Unmatched parentheses", NoToken, "", <<>>)

\* Parser.parse, the expr rule
Calc_parse(ps) == Try(Calc_term(ps), LAMBDA left : Calc_parse_loop(left.ps, left.node))

\* the while loop of Parser.parse, and its return
Calc_parse_loop(ps, left) ==
  IF ps.current_token # Calc_NoToken /\ ps.current_token.type \in {ADD, SUB}
  THEN Try(Calc_eat(ps, ps.current_token.type), LAMBDA e :
       Try(Calc_term(e.ps), LAMBDA right :
         Calc_parse_loop(right.ps, Calc_BinaryOp(left, right.node, ps.current_token))))
  ELSE Return(ps, left)

\* RPNConverter
RECURSIVE RPN_visit(_), RPN_visit_BinaryOp(_), RPN_visit_UnaryOp(_)

\* A fault: the operator written between its operands.
RPN_visit_BinaryOp_infix(ast) ==
  RPN_visit(ast.left) \o <<" ">> \o format(ast.token.value) \o <<" ">> \o RPN_visit(ast.right)

RPN_visit_BinaryOp(ast) ==
  RPN_visit(ast.left) \o <<" ">> \o RPN_visit(ast.right) \o <<" ">> \o format(ast.token.value)

RPN_visit_UnaryOp(ast) == RPN_visit(ast.operand) \o <<" ">> \o format(ast.token.value)

RPN_visit_Num(ast) == format(ast.token.value)

\* NodeVisitor.visit of an RPNConverter
RPN_visit(ast) ==
  CASE ast.node = "BinaryOp" -> RPN_visit_BinaryOp(ast)
    [] ast.node = "UnaryOp" -> RPN_visit_UnaryOp(ast)
    [] ast.node = "Num" -> RPN_visit_Num(ast)

\* RPNConverter(ast).get_rpn()
get_rpn(ast) == RPN_visit(ast)

\* ListExpressionConverter
RECURSIVE List_visit(_), List_visit_BinaryOp(_), List_visit_UnaryOp(_)

\* A fault: the operands written in reverse order.
List_visit_BinaryOp_swapping(ast) ==
  <<"(">> \o format(ast.token.value) \o <<" ">> \o List_visit(ast.right) \o <<" ">>
    \o List_visit(ast.left) \o <<")">>

List_visit_BinaryOp(ast) ==
  <<"(">> \o format(ast.token.value) \o <<" ">> \o List_visit(ast.left) \o <<" ">>
    \o List_visit(ast.right) \o <<")">>

List_visit_UnaryOp(ast) ==
  <<"(">> \o format(ast.token.value) \o <<" ">> \o List_visit(ast.operand) \o <<")">>

List_visit_Num(ast) == format(ast.token.value)

\* NodeVisitor.visit of a ListExpressionConverter
List_visit(ast) ==
  CASE ast.node = "BinaryOp" -> List_visit_BinaryOp(ast)
    [] ast.node = "UnaryOp" -> List_visit_UnaryOp(ast)
    [] ast.node = "Num" -> List_visit_Num(ast)

\* ListExpressionConverter(ast).get_list_expr()
get_list_expr(ast) == List_visit(ast)


\* Interpreter of simple_calculator.py: every visit returns the value and the
\* exception raised.
RECURSIVE Interp_visit(_), Interp_visit_BinaryOp(_), Interp_visit_UnaryOp(_)

\* the lambda that visit_BinaryOp chooses, applied
Interp_apply(type, x, y) ==
  CASE type = ADD -> op_ADD(x, y)
    [] type = SUB -> op_SUB(x, y)
    [] type = MUL -> op_MUL(x, y)
    [] type = DIV -> PyDiv(x, y)

\* A fault: the operands handed to the operator in reverse order.
Interp_visit_BinaryOp_swapping(ast) ==
  IF ast.token.type \notin {ADD, SUB, MUL, DIV}
  THEN Fault(Raise("Exception", "Unknown token: ", NoToken, ast.token.type, <<>>))
  ELSE Try(Interp_visit(ast.left), LAMBDA left :
       Try(Interp_visit(ast.right), LAMBDA right :
         Interp_apply(ast.token.type, right.val, left.val)))

Interp_visit_BinaryOp(ast) ==
  IF ast.token.type \notin {ADD, SUB, MUL, DIV}
  THEN Fault(Raise("Exception", "Unknown token: ", NoToken, ast.token.type, <<>>))
  ELSE Try(Interp_visit(ast.left), LAMBDA left :
       Try(Interp_visit(ast.right), LAMBDA right :
         Interp_apply(ast.token.type, left.val, right.val)))

Interp_visit_Num(ast) == Value(ast.token.value)

Interp_visit_UnaryOp(ast) ==
  IF ast.token.type \notin {UNARY_SUB, UNARY_ADD}
  THEN Fault(Raise("Exception", "Unknown token: ", NoToken, ast.token.type, <<>>))
  ELSE Try(Interp_visit(ast.operand), LAMBDA value :
         IF ast.token.type = UNARY_SUB THEN op_UNARY_SUB(value.val) ELSE op_UNARY_ADD(value.val))

\* NodeVisitor.visit of an Interpreter
Interp_visit(ast) ==
  CASE ast.node = "BinaryOp" -> Interp_visit_BinaryOp(ast)
    [] ast.node = "UnaryOp" -> Interp_visit_UnaryOp(ast)
    [] ast.node = "Num" -> Interp_visit_Num(ast)

\* Interpreter(ast).expr()
Interp_expr(ast) == Interp_visit(ast)

\* --------------------------------------------------------------- callers
\* Python's None where a snapshot is expected: no snapshot was returned.
NoSnapshot == [name \in {NoneStr} |-> <<JsonValue(NoneV), JsonValue(NoneV)>>]

\* evaluate(), on the text read from the file: the snapshot returned, the
\* exception raised, and the call that raised it.
evaluate(text) ==
  LET lexer_ == Lexer(text)
      parser_ == Parser(lexer_)
  IN IF parser_.err # NoErr
     THEN [snapshot |-> NoSnapshot, err |-> parser_.err, at |-> "Parser", ast |-> NoNode]
     ELSE LET ast_ == parse(parser_.ps)
          IN IF ast_.err # NoErr
             THEN [snapshot |-> NoSnapshot, err |-> ast_.err, at |-> "parse", ast |-> NoNode]
             ELSE LET k == kickoff(ast_.node, EmptyTable)
                  IN IF k.err # NoErr
                     THEN [snapshot |-> NoSnapshot, err |-> k.err, at |-> "kickoff", ast |-> ast_.node]
                     ELSE [snapshot |-> SymbolTable_getSymbols(k.table), err |-> NoErr,
                           at |-> "", ast |-> ast_.node]

\* ---------------------------------------------------------------- inputs
\* An input is a sequence of pieces; the source text is their concatenation.
SeqsUpTo(S, n) == UNION {[1..k -> S] : k \in 0..n}

\* the scenario program of the specification's testable properties
SrcScenario ==
  <<"p", "r", "o", "g", "r", "a", "m", " ", "p", ";", " ", "v", "a", "r", " ", "n", "u", "m",
    "b", "e", "r", ",", " ", "a", ",", " ", "b", ",", " ", "c", ":", " ", "i", "n", "t", "e",
    "g", "e", "r", ";", " ", "b", "e", "g", "i", "n", " ", "n", "u", "m", "b", "e", "r", " ",
    ":", "=", " ", "2", ";", " ", "a", " ", ":", "=", " ", "n", "u", "m", "b", "e", "r", ";",
    " ", "b", " ", ":", "=", " ", "1", "0", " ", "*", " ", "a", " ", "+", " ", "1", "0", " ",
    "*", " ", "n", "u", "m", "b", "e", "r", " ", "d", "i", "v", " ", "4", ";", " ", "c", " ",
    ":", "=", " ", "a", " ", "-", " ", "-", "b", " ", "e", "n", "d", ".">>

\* an empty compound block, with no header
SrcEmptyBlock == <<"b", "e", "g", "i", "n", " ", "e", "n", "d", ".">>

\* a program whose block has no statement
SrcEmptyProgram ==
  <<"p", "r", "o", "g", "r", "a", "m", " ", "p", ";", " ", "v", "a", "r", " ", "a", ":", " ",
    "i", "n", "t", "e", "g", "e", "r", ";", " ", "b", "e", "g", "i", "n", " ", "e", "n", "d",
    ".">>

\* a binary operator with no right operand, with no header
SrcMalformed ==
  <<"b", "e", "g", "i", "n", " ", "x", " ", ":", "=", " ", "1", " ", "+", " ", "e", "n", "d",
    ".">>

\* the same under a program header
SrcMalformedProgram ==
  <<"p", "r", "o", "g", "r", "a", "m", " ", "p", ";", " ", "v", "a", "r", " ", "a", ":", " ",
    "i", "n", "t", "e", "g", "e", "r", ";", " ", "b", "e", "g", "i", "n", " ", "x", " ", ":",
    "=", " ", "1", " ", "+", " ", "e", "n", "d", ".">>

\* spi_cases of UnitTest.py
SrcUnitTest ==
  <<"B", "E", "G", "I", "N", " ", "B", "E", "G", "I", "N", " ", "x", " ", ":", "=", " ", "2",
    ";", " ", "E", "N", "D", ";", " ", "n", "u", "m", "b", "e", "r", " ", ":", "=", " ", "x",
    " ", "+", " ", "1", "0", ";", " ", "E", "N", "D", ".">>

\* spi_lexer_tests of UnitTest.py
SrcLexerTest ==
  <<"B", "E", "G", "I", "N", " ", "b", " ", ":", "=", " ", "1", "0", " ", "*", " ", "a", " ",
    "+", " ", "1", "0", " ", "*", " ", "n", "u", "m", "b", "e", "r", " ", "/", " ", "4", ";",
    " ", "E", "N", "D", ".">>

\* a nested block and two declaration groups
SrcNested ==
  <<"p", "r", "o", "g", "r", "a", "m", " ", "p", ";", " ", "v", "a", "r", " ", "x", ":", " ",
    "i", "n", "t", "e", "g", "e", "r", ";", " ", "y", ":", " ", "r", "e", "a", "l", ";", " ",
    "b", "e", "g", "i", "n", " ", "b", "e", "g", "i", "n", " ", "x", " ", ":", "=", " ", "2",
    " ", "e", "n", "d", ";", " ", "y", " ", ":", "=", " ", "x", " ", "/", " ", "4", ";", " ",
    "x", " ", ":", "=", " ", "x", " ", "+", " ", "1", "0", ";", " ", "e", "n", "d", ".">>

\* the pieces of the generated programs
HeaderText == <<"p", "r", "o", "g", "r", "a", "m", " ", "p", ";", " ">>

DeclText ==
  <<"v", "a", "r", " ", "a", ",", " ", "b", ":", " ", "i", "n", "t", "e", "g", "e", "r", ";",
    " ">>

BeginText == <<"b", "e", "g", "i", "n", " ">>

EndText == <<" ", "e", "n", "d", ".">>

CommentText == <<"{", "c", "}", " ">>

TargetText == <<"a", " ", ":", "=", " ">>

\* The source texts given whole.
Scenarios ==
  {<<SrcScenario>>, <<SrcEmptyBlock>>, <<SrcEmptyProgram>>, <<SrcMalformed>>,
   <<SrcMalformedProgram>>, <<SrcUnitTest>>, <<SrcLexerTest>>, <<SrcNested>>}

\* Pieces of lexer input: constants, a name, signs, a closing parenthesis, a
\* blank, a comment, an unclosed comment, two characters of no token, a dot.
LexPieces ==
  {<<"1">>, <<"2", ".", "5">>, <<"X">>, <<"+">>, <<"-">>, <<")">>, <<" ">>, <<"{", "c", "}">>,
   <<"{">>, <<"@">>, <<"}">>, <<".">>}
LexInputs == SeqsUpTo(LexPieces, MaxPieces)

\* Pieces of the right-hand side of `a := ...`: b is declared and never
\* assigned, c is not declared.
ExprPieces ==
  {<<"2">>, <<"7">>, <<"2", ".", "5">>, <<"b">>, <<"c">>, <<"+">>, <<"-">>, <<"*">>,
   <<" ", "d", "i", "v", " ">>, <<"/">>, <<"(">>, <<")">>}
ExprInputs ==
  {<<HeaderText, DeclText, BeginText, TargetText>> \o e \o <<EndText>> :
     e \in SeqsUpTo(ExprPieces, MaxExpr)}

\* Statements, each with the `;` that follows it.
StmtPieces ==
  {<<"a", " ", ":", "=", " ", "1", ";">>,
   <<"a", " ", ":", "=", " ", "b", ";">>,
   <<"c", " ", ":", "=", " ", "a", ";">>,
   <<"b", " ", ":", "=", " ", "c", " ", "+", " ", "1", ";">>,
   <<"a", " ", ":", "=", " ", "c", ";">>,
   <<"b", "e", "g", "i", "n", " ", "c", " ", ":", "=", " ", "2", " ", "e", "n", "d", ";">>,
   <<"b", " ", ":", "=", " ", "1", " ", "+", ";">>,
   <<";">>}
\* What comes before the statements: a full header, one with no var section,
\* none at all, and a header with a comment before or inside it.
Preambles ==
  {<<HeaderText, DeclText, BeginText>>, <<HeaderText, BeginText>>, <<BeginText>>,
   <<CommentText, HeaderText, DeclText, BeginText>>,
   <<HeaderText, CommentText, DeclText, BeginText>>}
StmtInputs ==
  {pre \o body \o <<EndText>> : pre \in Preambles, body \in SeqsUpTo(StmtPieces, MaxStmts)}

\* Quotients of two constants, each with or without a minus sign, by div and by /:
\* `a := [-]x div [-]y` and `a := [-]x / [-]y`.
QuotientOperands == {<<"1">>, <<"2">>, <<"7">>, <<"2", ".", "5">>}
QuotientInputs ==
  {<<HeaderText, DeclText, BeginText, TargetText, sx, x, op, sy, y, EndText>> :
     sx \in {<<>>, <<"-">>}, x \in QuotientOperands,
     op \in {<<" ", "d", "i", "v", " ">>, <<"/">>},
     sy \in {<<>>, <<"-">>}, y \in QuotientOperands}

ProgramInputs == Scenarios \cup ExprInputs \cup StmtInputs \cup QuotientInputs

\* The arguments of the calls made on a SymbolTable: names, the type names
\* visit_Type returns, and the values a visit returns (None included).
TableNames == {<<"a">>, <<"b">>}
TableTypes == {StrV(KwInteger), StrV(KwReal)}
TableValues == {IntV(1), RealV(5, 2), NoneV}

\* The expressions of RPN_cases and list_expr_converter_caseses of UnitTest.py.
SrcRpn1 ==
  <<"1", "+", "1">>
SrcRpn2 ==
  <<"(", "2", "+", "3", ")", "*", "2", "/", "5">>
SrcRpn3 ==
  <<"+", "1">>
SrcRpn4 ==
  <<"-", "1">>
RPN_cases == {<<SrcRpn1>>, <<SrcRpn2>>, <<SrcRpn3>>, <<SrcRpn4>>}

\* Expressions of calc_cases of UnitTest.py.
SrcCalc1 ==
  <<"2", "*", "(", "-", "2", ")">>
SrcCalc2 ==
  <<"(", "5", " ", "+", " ", "-", "1", ")", "/", "(", "2", "+", " ", "+", "2", ")", " ",
    "+", " ", "2", "*", " ", "-", "2", " ", "+", " ", "2", "+", "(", "-", "2", ")">>
SrcCalc3 ==
  <<"5", " ", "-", " ", "-", " ", "-", " ", "+", " ", "-", " ", "(", "3", " ", "+", " ",
    "4", ")", " ", "-", " ", "+", "2">>
SrcCalc4 ==
  <<"1", "3", "2", "-", "1", "2">>
SrcCalc5 ==
  <<"(", "1", "+", "2", ")", "*", "(", "4", "+", "2", ")", "/", "2", "+", "1">>
calc_cases == {<<SrcCalc1>>, <<SrcCalc2>>, <<SrcCalc3>>, <<SrcCalc4>>, <<SrcCalc5>>}

\* a character of no token after a number
SrcCalcUnrecognized == <<"1", " ", "@">>

\* a division by zero
SrcCalcZero == <<"7", "/", "(", "2", "-", "2", ")">>

\* Pieces of calculator input: a number, a number written with a leading
\* zero, a sign, an operator of higher precedence, parentheses.
CalcPieces == {<<"1">>, <<"0", "2">>, <<"+">>, <<"*">>, <<"(">>, <<")">>}
\* Pieces of the expressions evaluated: two numbers, the sign and the operators
\* whose operands do not commute, parentheses.
ArithPieces == {<<"7">>, <<"2">>, <<"-">>, <<"/">>, <<"*">>, <<"(">>, <<")">>}
ArithInputs == SeqsUpTo(ArithPieces, MaxCalc)

CalcInputs ==
  RPN_cases \cup calc_cases \cup {<<SrcCalcUnrecognized>>, <<SrcCalcZero>>}
    \cup {e \in SeqsUpTo(CalcPieces, MaxCalc) :
            Cardinality({i \in 1..Len(Flatten(e)) : IsDigit(Flatten(e)[i])}) <= MaxDigits}

\* ------------------------------------------------------------ the machine
VARIABLES
  driver,    \* the caller: "evaluate", "test_lexer", or "calls" (any calls of the classes' methods)
  input,     \* the pieces of the source text the caller supplies
  runs,      \* how many times the caller has called evaluate() on the text
  args,      \* the arguments of the last call made on a SymbolTable or a Parser
  lexer,     \* the Lexer object
  parser,    \* the Parser object: current_token and peeked_tokens (its lexer is `lexer`)
  ast,       \* the AST parse() returned
  table,     \* Interpreter.table.table
  snapshot,  \* what getSymbols() returned
  pc,        \* the last call made
  ret,       \* what the last call returned
  err        \* the exception the last call raised
vars == <<driver, input, runs, args, lexer, parser, ast, table, snapshot, pc, ret, err>>

text == Flatten(input)
\* the Parser object with the lexer it refers to
ps == [lexer |-> lexer, current_token |-> parser.current_token,
       peeked_tokens |-> parser.peeked_tokens]
ParserOf(p) == [current_token |-> p.current_token, peeked_tokens |-> p.peeked_tokens]

Start ==
  /\ runs = 1
  /\ args = <<>>
  /\ lexer = NoLexer
  /\ parser = NoParser
  /\ ast = NoNode
  /\ table = EmptyTable
  /\ snapshot = NoSnapshot
  /\ pc = "start"
  /\ ret = NoToken
  /\ err = NoErr

\* The callers that parse a program: evaluate(), and a caller that hands the
\* AST to one of the two converters.
Pipelines == {"evaluate", "RPNConverter", "ListExpressionConverter"}

Init ==
  /\ \/ driver = "evaluate" /\ input \in ProgramInputs \cup LexInputs
     \/ driver = "test_lexer" /\ input \in Scenarios \cup LexInputs
     \/ driver \in {"RPNConverter", "ListExpressionConverter"} /\ input \in Scenarios \cup StmtInputs
  /\ Start

InitCalls ==
  /\ driver = "calls"
  /\ input \in LexInputs
  /\ Start

\* lexer = Lexer(text): lines 761 and 778
NewLexer ==
  /\ pc = "start"
  /\ lexer' = Lexer(text)
  /\ pc' = "Lexer"
  /\ UNCHANGED <<driver, input, runs, args, parser, ast, table, snapshot, ret, err>>

\* parser = Parser(lexer): line 779
NewParser ==
  /\ pc = "Lexer"
  /\ driver \in Pipelines \cup {"calls"}
  /\ \E r \in {Parser(lexer)} :
       /\ lexer' = r.ps.lexer
       /\ parser' = ParserOf(r.ps)
       /\ ret' = r.tok
       /\ err' = r.err
  /\ pc' = "Parser"
  /\ UNCHANGED <<driver, input, runs, args, ast, table, snapshot>>

\* ast = parser.parse(): line 780
Parse ==
  /\ pc = "Parser"
  /\ driver \in Pipelines
  /\ err = NoErr
  /\ \E r \in {parse(ps)} :
       /\ lexer' = r.ps.lexer
       /\ parser' = ParserOf(r.ps)
       /\ ast' = r.node
       /\ err' = r.err
  /\ pc' = "parse"
  /\ UNCHANGED <<driver, input, runs, args, table, snapshot, ret>>

\* A fault: the Interpreter created whether or not parse() raised.
NewInterpreter_anyway ==
  /\ driver = "evaluate"
  /\ pc = "parse"
  /\ table' = EmptyTable
  /\ pc' = "Interpreter"
  /\ UNCHANGED <<driver, input, runs, args, lexer, parser, ast, snapshot, ret, err>>

\* A fault: the new Interpreter given the table of the Interpreter before it.
NewInterpreter_sharing ==
  /\ driver = "evaluate"
  /\ pc = "parse"
  /\ err = NoErr
  /\ pc' = "Interpreter"
  /\ UNCHANGED <<driver, input, runs, args, lexer, parser, ast, table, snapshot, ret, err>>

\* interpreter = Interpreter(ast): line 781
NewInterpreter ==
  /\ driver = "evaluate"
  /\ pc = "parse"
  /\ err = NoErr
  /\ table' = EmptyTable
  /\ pc' = "Interpreter"
  /\ UNCHANGED <<driver, input, runs, args, lexer, parser, ast, snapshot, ret, err>>

\* interpreter.kickoff(): line 782
Kickoff ==
  /\ pc = "Interpreter"
  /\ \E r \in {kickoff(ast, table)} :
       /\ table' = r.table
       /\ err' = r.err
  /\ pc' = "kickoff"
  /\ UNCHANGED <<driver, input, runs, args, lexer, parser, ast, snapshot, ret>>

\* return interpreter.getSymbols(): line 783
GetSymbols ==
  /\ pc = "kickoff"
  /\ err = NoErr
  /\ snapshot' = SymbolTable_getSymbols(table)
  /\ pc' = "getSymbols"
  /\ UNCHANGED <<driver, input, runs, args, lexer, parser, ast, table, ret, err>>

\* RPNConverter(ast).get_rpn() on the AST parse() returned
SpiGetRpn ==
  /\ driver = "RPNConverter"
  /\ pc = "parse"
  /\ err = NoErr
  /\ \E r \in {Spi_get_rpn(ast)} :
       /\ ret' = r.val
       /\ err' = r.err
  /\ pc' = "get_rpn"
  /\ UNCHANGED <<driver, input, runs, args, lexer, parser, ast, table, snapshot>>

\* ListExpressionConverter(ast).get_list_expr() on the AST parse() returned
SpiGetListExpr ==
  /\ driver = "ListExpressionConverter"
  /\ pc = "parse"
  /\ err = NoErr
  /\ \E r \in {Spi_get_list_expr(ast)} :
       /\ ret' = r.val
       /\ err' = r.err
  /\ pc' = "get_list_expr"
  /\ UNCHANGED <<driver, input, runs, args, lexer, parser, ast, table, snapshot>>

\* evaluate(text) called once more with the same text, after it has returned:
\* the objects of the call that returned are out of reach, the caller keeps
\* what it returned; `table` stays the table of the last Interpreter created.
Again ==
  /\ driver = "evaluate"
  /\ pc = "getSymbols"
  /\ runs < MaxRuns
  /\ runs' = runs + 1
  /\ lexer' = NoLexer
  /\ parser' = NoParser
  /\ ast' = NoNode
  /\ ret' = NoToken
  /\ err' = NoErr
  /\ pc' = "start"
  /\ UNCHANGED <<driver, input, args, table, snapshot>>

\* token = lexer.get_next_token() in the loop of test_lexer, which ends with
\* the EOF token or the exception: lines 763-767
TestLexerNext ==
  /\ driver = "test_lexer"
  /\ \/ pc = "Lexer"
     \/ pc = "get_next_token" /\ err = NoErr /\ ret.type # EOF
  /\ \E r \in {Lexer_get_next_token(lexer)} :
       /\ lexer' = r.lx
       /\ ret' = r.tok
       /\ err' = r.err
  /\ pc' = "get_next_token"
  /\ UNCHANGED <<driver, input, runs, args, parser, ast, table, snapshot>>

\* Whether the caller may call a method of the Lexer: it holds no Parser yet.
LexerCallable == driver = "calls" /\ pc \in {"Lexer", "get_next_token", "advance", "comment"}

\* a call of lexer.get_next_token()
CallGetNextToken ==
  /\ LexerCallable
  /\ \E r \in {Lexer_get_next_token(lexer)} :
       /\ lexer' = r.lx
       /\ ret' = r.tok
       /\ err' = r.err
  /\ pc' = "get_next_token"
  /\ UNCHANGED <<driver, input, runs, args, parser, ast, table, snapshot>>

\* a call of lexer.advance(steps) by the caller, which clamped does not count
CallAdvance ==
  /\ LexerCallable
  /\ \E steps \in 1..MaxSteps :
       lexer' = [advance(lexer, steps) EXCEPT !.clamped = lexer.clamped]
  /\ ret' = NoToken
  /\ err' = NoErr
  /\ pc' = "advance"
  /\ UNCHANGED <<driver, input, runs, args, parser, ast, table, snapshot>>

\* a call of lexer.comment()
CallComment ==
  /\ LexerCallable
  /\ \E r \in {comment(lexer)} :
       /\ lexer' = r.lx
       /\ err' = r.err
  /\ ret' = NoToken
  /\ pc' = "comment"
  /\ UNCHANGED <<driver, input, runs, args, parser, ast, table, snapshot>>

\* Whether the caller holds a Parser.
ParserCallable ==
  /\ driver = "calls"
  /\ \/ pc = "Parser" /\ err = NoErr
     \/ pc \in {"eat", "peek"}

\* a call of parser.eat(token_type), with the kind of the current token or with DOT
CallEat ==
  /\ ParserCallable
  /\ \E token_type \in {parser.current_token.type, DOT} :
       \E r \in {eat(ps, token_type)} :
         /\ lexer' = r.ps.lexer
         /\ parser' = ParserOf(r.ps)
         /\ args' = <<token_type>>
         /\ ret' = r.tok
         /\ err' = r.err
  /\ pc' = "eat"
  /\ UNCHANGED <<driver, input, runs, ast, table, snapshot>>

\* a call of parser.peek()
CallPeek ==
  /\ ParserCallable
  /\ Len(parser.peeked_tokens) < MaxPeeked
  /\ \E r \in {Parser_peek(ps)} :
       /\ lexer' = r.ps.lexer
       /\ parser' = ParserOf(r.ps)
       /\ ret' = r.tok
       /\ err' = r.err
  /\ args' = <<>>
  /\ pc' = "peek"
  /\ UNCHANGED <<driver, input, runs, ast, table, snapshot>>

\* table = SymbolTable(): lines 326-327
NewSymbolTable ==
  /\ driver = "table"
  /\ pc = "start"
  /\ table' = EmptyTable
  /\ pc' = "SymbolTable"
  /\ UNCHANGED <<driver, input, runs, args, lexer, parser, ast, snapshot, ret, err>>

\* Whether the caller holds a SymbolTable.
TableCallable == driver = "table" /\ pc \in {"SymbolTable", "declare", "assign", "lookup"}

\* a call of table.declare(var_name, type_name), which returns None
CallDeclare ==
  /\ TableCallable
  /\ \E var_name \in TableNames, typename \in TableTypes :
       /\ args' = <<var_name, typename>>
       /\ table' = SymbolTable_declare(table, var_name, typename)
  /\ ret' = NoneV
  /\ err' = NoErr
  /\ pc' = "declare"
  /\ UNCHANGED <<driver, input, runs, lexer, parser, ast, snapshot>>

\* a call of table.assign(var_name, value)
CallAssign ==
  /\ TableCallable
  /\ \E var_name \in TableNames, value \in TableValues :
       /\ args' = <<var_name, value>>
       /\ table' = SymbolTable_assign(table, var_name, value)
       /\ ret' = value
  /\ err' = NoErr
  /\ pc' = "assign"
  /\ UNCHANGED <<driver, input, runs, lexer, parser, ast, snapshot>>

\* a call of table.lookup(var_name): the entry returned, or the exception
CallLookup ==
  /\ TableCallable
  /\ \E var_name \in TableNames :
       /\ args' = <<var_name>>
       /\ \E r \in {SymbolTable_lookup(table, var_name)} :
            /\ ret' = IF r.err = NoErr THEN r.entry ELSE NoneV
            /\ err' = r.err
  /\ pc' = "lookup"
  /\ UNCHANGED <<driver, input, runs, lexer, parser, ast, table, snapshot>>

\* evaluate() and test_lexer()
Next ==
  \/ NewLexer
  \/ NewParser
  \/ Parse
  \/ NewInterpreter
  \/ Kickoff
  \/ GetSymbols
  \/ Again
  \/ TestLexerNext
  \/ SpiGetRpn
  \/ SpiGetListExpr

Spec == Init /\ [][Next]_vars

\* any calls of the methods of a Lexer and of a Parser
NextCalls ==
  \/ NewLexer
  \/ NewParser
  \/ CallGetNextToken
  \/ CallAdvance
  \/ CallComment
  \/ CallEat
  \/ CallPeek

SpecCalls == InitCalls /\ [][NextCalls]_vars

\* any calls of get_next_token and comment on a Lexer, which makes every
\* advance itself
NextTokens ==
  \/ NewLexer
  \/ CallGetNextToken
  \/ CallComment

SpecTokens == InitCalls /\ [][NextTokens]_vars

\* any calls of the methods of a SymbolTable
InitTable ==
  /\ driver = "table"
  /\ input = <<>>
  /\ Start

NextTable ==
  \/ NewSymbolTable
  \/ CallDeclare
  \/ CallAssign
  \/ CallLookup

SpecTable == InitTable /\ [][NextTable]_vars

\* The calculator tests of UnitTest.py: lines 73-80, 96-107 and 109-120.
CalcDrivers == {"test_rnpConverter", "test_listExprConverter", "test_calc"}

InitCalc ==
  /\ \/ driver \in {"test_rnpConverter", "test_listExprConverter"} /\ input \in CalcInputs
     \/ driver = "test_calc" /\ input \in CalcInputs \cup ArithInputs
  /\ Start

\* lexer = Lexer(expr)
CalcNewLexer ==
  /\ driver \in CalcDrivers
  /\ pc = "start"
  /\ lexer' = Calc_Lexer(text)
  /\ pc' = "Lexer"
  /\ UNCHANGED <<driver, input, runs, args, parser, ast, table, snapshot, ret, err>>

\* parser = Parser(lexer)
CalcNewParser ==
  /\ driver \in CalcDrivers
  /\ pc = "Lexer"
  /\ \E r \in {Calc_Parser(lexer)} :
       /\ lexer' = r.ps.lexer
       /\ parser' = [current_token |-> r.ps.current_token]
       /\ err' = r.err
  /\ pc' = "Parser"
  /\ UNCHANGED <<driver, input, runs, args, ast, table, snapshot, ret>>

\* ast = parser.parse()
CalcParse ==
  /\ driver \in CalcDrivers
  /\ pc = "Parser"
  /\ err = NoErr
  /\ \E r \in {Calc_parse([lexer |-> lexer, current_token |-> parser.current_token])} :
       /\ lexer' = r.ps.lexer
       /\ parser' = [current_token |-> r.ps.current_token]
       /\ ast' = r.node
       /\ err' = r.err
  /\ pc' = "parse"
  /\ UNCHANGED <<driver, input, runs, args, table, snapshot, ret>>

\* rpn = RPNConverter(ast).get_rpn()
GetRpn ==
  /\ driver = "test_rnpConverter"
  /\ pc = "parse"
  /\ err = NoErr
  /\ ret' = get_rpn(ast)
  /\ pc' = "get_rpn"
  /\ UNCHANGED <<driver, input, runs, args, lexer, parser, ast, table, snapshot, err>>

\* list_expr = ListExpressionConverter(ast).get_list_expr()
GetListExpr ==
  /\ driver = "test_listExprConverter"
  /\ pc = "parse"
  /\ err = NoErr
  /\ ret' = get_list_expr(ast)
  /\ pc' = "get_list_expr"
  /\ UNCHANGED <<driver, input, runs, args, lexer, parser, ast, table, snapshot, err>>

\* return Interpreter(ast).expr(): calc_apply_test, lines 79-80
CalcExpr ==
  /\ driver = "test_calc"
  /\ pc = "parse"
  /\ err = NoErr
  /\ \E r \in {Interp_expr(ast)} :
       /\ ret' = r.val
       /\ err' = r.err
  /\ pc' = "expr"
  /\ UNCHANGED <<driver, input, runs, args, lexer, parser, ast, table, snapshot>>

NextCalc ==
  \/ CalcNewLexer
  \/ CalcNewParser
  \/ CalcParse
  \/ GetRpn
  \/ GetListExpr
  \/ CalcExpr

SpecCalc == InitCalc /\ [][NextCalc]_vars
\* ============================================================ properties
\* The names a program declares, assigns and reads, walking the AST in the
\* order the Interpreter visits it. undefined holds the names read in value
\* context before any declaration or assignment of them.
NoUses == [declared |-> {}, assigned |-> {}, read |-> {}, undefined |-> {}]

\* the names under the left operand of a `:` node
RECURSIVE NamesOf(_)
NamesOf(node) ==
  IF node.node = "Variable" THEN {node.token.value}
  ELSE IF node.node = "BinaryOp" THEN NamesOf(node.left) \cup NamesOf(node.right)
  ELSE {}

RECURSIVE Uses(_, _), UsesOfAll(_, _)
Uses(node, u) ==
  CASE node.node = "Variable" ->
         [u EXCEPT !.read = @ \cup {node.token.value},
                   !.undefined = IF node.token.value \in u.declared \cup u.assigned
                                 THEN @ ELSE @ \cup {node.token.value}]
    [] node.node = "UnaryOp" -> Uses(node.operand, u)
    [] node.node = "BinaryOp" /\ node.token.type = ASSIGN ->
         Let(Uses(node.right, u), LAMBDA v : [v EXCEPT !.assigned = @ \cup NamesOf(node.left)])
    [] node.node = "BinaryOp" /\ node.token.type = COLON ->
         [u EXCEPT !.declared = @ \cup NamesOf(node.left)]
    [] node.node = "BinaryOp" /\ node.token.type \notin {ASSIGN, COLON} ->
         Uses(node.right, Uses(node.left, u))
    [] node.node = "CompoundOp" -> UsesOfAll(node.operands, u)
    [] OTHER -> u
UsesOfAll(nodes, u) ==
  IF nodes = <<>> THEN u ELSE UsesOfAll(Tail(nodes), Uses(Head(nodes), u))

\* evaluate() has run the interpreter on the AST of the source
Interpreted == driver = "evaluate" /\ pc \in {"kickoff", "getSymbols"}
NameNotDefined(e) == e.exc = "Exception" /\ e.fmt = "Name {} is not defined"

\* ---- C1
C1_Expected ==
  [name \in {<<"n", "u", "m", "b", "e", "r">>, <<"a">>, <<"b">>, <<"c">>} |->
     <<JsonValue(StrV(KwInteger)),
       JsonValue(IntV(CASE name = <<"b">> -> 25 [] name = <<"c">> -> 27 [] OTHER -> 2))>>]

\* C1: evaluate() on the scenario program raises nothing at any stage, and the
\* snapshot getSymbols returns holds exactly number -> (integer, 2),
\* a -> (integer, 2), b -> (integer, 25), c -> (integer, 27).
C1_ScenarioSnapshot ==
  (driver = "evaluate" /\ text = SrcScenario) =>
    /\ err = NoErr
    /\ pc = "getSymbols" => snapshot = C1_Expected

C1_Witness ==
  driver = "evaluate" /\ text = SrcScenario /\ pc = "getSymbols" /\ snapshot = C1_Expected

\* ---- C2
\* C2 (as the specification states it): a program that declares a name, never
\* assigns it and reads it in value context fails with the "not defined" error.
C2_DeclaredUnassignedReadFails ==
  Interpreted =>
    \A name \in Uses(ast, NoUses).declared \cap Uses(ast, NoUses).read :
      name \notin Uses(ast, NoUses).assigned => NameNotDefined(err)

\* ---- C3
\* C3: when the program reads, in value context, a name that nothing declared
\* or assigned before, the run raises: "Name ... is not defined" for such a
\* name, unless an operation before that read has already raised a TypeError
\* or a ZeroDivisionError; and getSymbols is never reached, so there is no snapshot.
C3_UndefinedReadRaises ==
  (Interpreted /\ Uses(ast, NoUses).undefined # {}) =>
    /\ err # NoErr
    /\ err.exc \in {"Exception", "TypeError", "ZeroDivisionError"}
    /\ err.exc = "Exception" => NameNotDefined(err) /\ err.txt \in Uses(ast, NoUses).undefined
    /\ pc = "kickoff"
    /\ snapshot = NoSnapshot

C3_Witness ==
  /\ driver = "evaluate" /\ pc = "kickoff"
  /\ Uses(ast, NoUses).undefined = {<<"c">>}
  /\ NameNotDefined(err) /\ err.txt = <<"c">>
  /\ snapshot = NoSnapshot

\* ---- C4
\* C4 (as the specification states it): `begin end.` is accepted, raises
\* nothing at any stage and evaluates to the empty snapshot.
C4_EmptyBlockAccepted ==
  (driver = "evaluate" /\ text = SrcEmptyBlock) =>
    /\ err = NoErr
    /\ pc = "getSymbols" => snapshot = SymbolTable_getSymbols(EmptyTable)

\* ---- C5
\* the source is `program p; begin <statements> end.`, with no var section
NoVarSection == Len(input) >= 3 /\ SubSeq(input, 1, 2) = <<HeaderText, BeginText>>

\* C5 (as the specification states it): a program with a header and no var
\* section is parsed successfully.
C5_DeclarationsOptional ==
  (driver = "evaluate" /\ pc = "parse" /\ NoVarSection) => err = NoErr /\ ast # NoNode

\* ---- C6
\* the source is `program p; var a, b: integer; begin a := ( e ) end.` for a
\* constant or a declared name e
Parenthesized ==
  /\ Len(input) = 8
  /\ SubSeq(input, 1, 4) = <<HeaderText, DeclText, BeginText, TargetText>>
  /\ input[5] = <<"(">> /\ input[7] = <<")">>
  /\ input[6] \in {<<"2">>, <<"7">>, <<"2", ".", "5">>, <<"b">>}
\* the same source without the parentheses
Unparenthesized == Flatten(<<input[1], input[2], input[3], input[4], input[6], input[8]>>)

\* C6 (as the specification states it): `a := (e)` parses and evaluates to
\* what `a := e` evaluates to.
C6_ParenthesesReenterExpr ==
  (driver = "evaluate" /\ pc \in {"parse", "kickoff", "getSymbols"} /\ Parenthesized) =>
    /\ err = NoErr
    /\ evaluate(text).err = NoErr
    /\ evaluate(text).snapshot = evaluate(Unparenthesized).snapshot

\* ---- C7
\* C7 (as the specification states it): parsing `begin x := 1 + end.` raises
\* the error whose message names the expected token kind.
C7_MalformedNamesExpected ==
  (driver = "evaluate" /\ text = SrcMalformed /\ pc = "parse") =>
    /\ err.exc = "Exception"
    /\ err.fmt = "Unexpected token: {0}. Expected: {1}"
    /\ err.exp # ""

\* ---- C8
\* C8: once the Lexer exists, after every call made on it or through the
\* Parser, whether it returned or raised, scanned followed by non_scanned is
\* the stripped and lower-cased input text, and their lengths add up to its length.
C8_ScannedPartition ==
  lexer # NoLexer =>
    /\ Len(scanned(lexer)) + Len(non_scanned(lexer)) = Len(Lower(Strip(text)))
    /\ scanned(lexer) \o non_scanned(lexer) = Lower(Strip(text))

C8_Witness ==
  /\ driver = "calls" /\ pc = "get_next_token" /\ err # NoErr
  /\ scanned(lexer) # <<>> /\ non_scanned(lexer) # <<>>
  /\ Lower(Strip(text)) # text

\* ---- C9
SignKinds == {ADD, SUB, UNARY_ADD, UNARY_SUB}
\* C9 (as the specification states it): a + or - that get_next_token returns is
\* binary exactly when the token returned just before it is a closing
\* parenthesis, an integer or real constant, or a variable.
C9_SignClassification ==
  [][(driver = "test_lexer" /\ pc' = "get_next_token" /\ err' = NoErr /\ ret'.type \in SignKinds) =>
       (ret'.type \in {ADD, SUB} <=>
          (pc = "get_next_token" /\ ret.type \in {R_PAR, INTEGER_CONST, REAL_CONST, VAR}))]_vars

\* ---- C10
\* the source is a comment followed by a program that parses
CommentFirst == Len(input) >= 2 /\ input[1] = CommentText /\ evaluate(Flatten(Tail(input))).at \notin {"Parser", "parse"}

\* C10 (as the specification states it): the Parser's current token is never
\* a COMMENT, and a program that parses, preceded by a comment, parses to the
\* same AST.
C10_CommentsSkipped ==
  driver = "evaluate" =>
    /\ parser.current_token.type # COMMENT
    /\ (pc = "parse" /\ CommentFirst) => (err = NoErr /\ ast = evaluate(Flatten(Tail(input))).ast)

\* ---- C11
\* an operand, then a blank or a comment, then a sign
OperandGapSign ==
  /\ Len(input) = 3
  /\ input[1] \in {<<"1">>, <<"X">>, <<")">>}
  /\ input[2] \in {<<" ">>, <<"{", "c", "}">>}
  /\ input[3] \in {<<"+">>, <<"-">>}

\* C11 (as the specification states it): a + or - that follows an integer
\* constant, a variable or a closing parenthesis with only a blank or a comment
\* in between is classified as binary.
C11_CommentKeepsBinary ==
  (driver = "test_lexer" /\ OperandGapSign /\ pc = "get_next_token" /\ err = NoErr
     /\ ret.type \in SignKinds) => ret.type \in {ADD, SUB}

\* ---- C12
\* the characters that start a token or a comment
TokenStarts ==
  Range(Digits) \cup Range(LowerLetters) \cup {"_"} \cup {"+", "-", "*", "/", "(", ")", ".", ";", ",", ":"} \cup {"{"}

\* the first character of s that is not a blank, NoneChar if there is none
FirstNonBlank(s) ==
  IF \E i \in 1..Len(s) : ~IsSpace(s[i])
  THEN s[CHOOSE i \in 1..Len(s) : ~IsSpace(s[i]) /\ \A j \in 1..(i - 1) : IsSpace(s[j])]
  ELSE NoneChar

\* C12: a call of get_next_token made when the first non-blank character at the
\* cursor starts no number, identifier, operator, punctuation or comment raises
\* the "Unrecognized char" exception and returns no token.
C12_UnrecognizedCharRaises ==
  [][(driver = "calls" /\ pc' = "get_next_token" /\ lexer.pos >= 0
        /\ FirstNonBlank(non_scanned(lexer)) \notin TokenStarts \cup {NoneChar}) =>
       /\ err'.exc = "Exception"
       /\ err'.fmt = "Unrecognized char: {0}."
       /\ ret' = NoToken]_vars

C12_Witness ==
  /\ driver = "calls" /\ pc = "get_next_token"
  /\ err.fmt = "Unrecognized char: {0}." /\ ret = NoToken
  /\ \E i \in 1..Len(scanned(lexer)) : scanned(lexer)[i] = "}"
  /\ lexer.current_token # NoToken

\* ---- C13
\* C13: evaluate() takes no further step once Parser() or parse() has raised,
\* and an Interpreter is created, a symbol table written and a snapshot taken
\* only after parse() has returned the AST of the whole source without raising.
C13_ParseBeforeEvaluation ==
  [][driver = "evaluate" =>
       /\ ~(pc \in {"Parser", "parse"} /\ err # NoErr)
       /\ (pc' = "Interpreter" \/ table' # table \/ snapshot' # snapshot) =>
            /\ pc \in {"parse", "Interpreter", "kickoff"}
            /\ err = NoErr
            /\ ast = evaluate(text).ast
            /\ ast.node = "CompoundOp"]_vars

\* parse() has raised at the second statement, after a well-formed first one
C13_Witness ==
  /\ driver = "evaluate" /\ pc = "parse" /\ err # NoErr
  /\ Len(input) = 6
  /\ input[4] = <<"a", " ", ":", "=", " ", "1", ";">>
  /\ input[5] = <<"b", " ", ":", "=", " ", "1", " ", "+", ";">>
  /\ table = EmptyTable /\ snapshot = NoSnapshot

\* ---- C14
\* C14: every Interpreter starts from an empty symbol table, and a second
\* evaluate() of the same text returns the snapshot the first one returned.
C14_RunsIndependent ==
  [][driver = "evaluate" =>
       /\ pc' = "Interpreter" => table' = EmptyTable
       /\ (pc' = "getSymbols" /\ runs' > 1) => snapshot' = snapshot]_vars

\* the second run has returned the snapshot of a program that reads a name
\* before it assigns it
C14_Witness ==
  /\ driver = "evaluate" /\ pc = "getSymbols" /\ runs = 2
  /\ Len(input) = 6
  /\ input[4] = <<"c", " ", ":", "=", " ", "a", ";">>
  /\ input[5] = <<"a", " ", ":", "=", " ", "1", ";">>
  /\ snapshot # NoSnapshot

\* ---- C15
\* the entries of table t other than the entry of name are those of table u
SameElsewhere(t, u, name) ==
  /\ DOMAIN t \ {name} = DOMAIN u \ {name}
  /\ \A other \in DOMAIN t \ {name} : t[other] = u[other]

\* C15: declare(name, type) leaves name with the declared type type, with the
\* value it had (None if it had no entry), changes no other entry, returns
\* None, and changes nothing when repeated with the same arguments.
C15_DeclareFrame ==
  [][(driver = "table" /\ pc' = "declare") =>
       /\ args'[1] \in DOMAIN table'
       /\ table'[args'[1]].type = args'[2]
       /\ table'[args'[1]].value =
            (IF args'[1] \in DOMAIN table THEN table[args'[1]].value ELSE NoneV)
       /\ SameElsewhere(table', table, args'[1])
       /\ err' = NoErr /\ ret' = NoneV
       /\ (pc = "declare" /\ args = args') => table' = table]_vars

\* a name declared real after 1 was assigned to it, beside another entry
C15_Witness ==
  /\ driver = "table" /\ pc = "declare" /\ args = <<(<<"a">>), StrV(KwReal)>>
  /\ DOMAIN table = TableNames
  /\ table[<<"a">>] = [type |-> StrV(KwReal), value |-> IntV(1)]
  /\ table[<<"b">>] = [type |-> StrV(KwInteger), value |-> RealV(5, 2)]

\* ---- C16
\* C16: assign(name, value) leaves name with the value value, with the declared
\* type it had (None if it had no entry), changes no other entry, raises
\* nothing and returns value, whatever the declared type and the value are.
C16_AssignFrame ==
  [][(driver = "table" /\ pc' = "assign") =>
       /\ args'[1] \in DOMAIN table'
       /\ table'[args'[1]].value = args'[2]
       /\ table'[args'[1]].type =
            (IF args'[1] \in DOMAIN table THEN table[args'[1]].type ELSE NoneV)
       /\ SameElsewhere(table', table, args'[1])
       /\ err' = NoErr /\ ret' = args'[2]]_vars

\* the real 2.5 assigned to a name declared integer, beside an entry that an
\* assignment created
C16_Witness ==
  /\ driver = "table" /\ pc = "assign" /\ args = <<(<<"a">>), RealV(5, 2)>>
  /\ ret = RealV(5, 2)
  /\ DOMAIN table = TableNames
  /\ table[<<"a">>] = [type |-> StrV(KwInteger), value |-> RealV(5, 2)]
  /\ table[<<"b">>] = [type |-> NoneV, value |-> IntV(1)]

\* ---- C17
\* the source is `a := [-]x op [-]y`
IsQuotient(op) == input \in QuotientInputs /\ input[7] = op

\* the number a signed operand of a quotient denotes, as numerator and denominator
Operand(sign, digits) ==
  LET n == CASE digits = <<"1">> -> <<1, 1>>
             [] digits = <<"2">> -> <<2, 1>>
             [] digits = <<"7">> -> <<7, 1>>
             [] digits = <<"2", ".", "5">> -> <<5, 2>>
  IN IF sign = <<"-">> THEN <<0 - n[1], n[2]>> ELSE n
Dividend == Operand(input[5], input[6])
Divisor == Operand(input[8], input[9])

\* C17: x / y evaluates without error to the real number that is the exact
\* quotient of x and y, for integer and real constants of either sign; no
\* program whose right-hand side is a single / leaves an integer in a.
C17_SlashYieldsReal ==
  (driver = "evaluate" /\ pc \in {"parse", "kickoff", "getSymbols"}) =>
    /\ IsQuotient(<<"/">>) =>
         /\ err = NoErr
         /\ pc # "parse" =>
              /\ table[<<"a">>].value.t = "float"
              /\ table[<<"a">>].value.d > 0
              /\ table[<<"a">>].value.n * (Dividend[2] * Divisor[1]) =
                   table[<<"a">>].value.d * (Dividend[1] * Divisor[2])
    /\ (input \in ExprInputs /\ Len(input) = 8 /\ input[6] = <<"/">> /\ err = NoErr
          /\ pc # "parse") =>
         table[<<"a">>].value.t = "float"

\* 2 / 2 has given the real 1.0, or -7 / 2 the real -3.5
C17_Witness ==
  /\ driver = "evaluate" /\ pc = "getSymbols" /\ IsQuotient(<<"/">>)
  /\ \/ /\ Dividend = <<2, 1>> /\ Divisor = <<2, 1>>
        /\ table[<<"a">>].value = RealRaw(1, 1)
        /\ snapshot[<<"a">>][2].json = "real"
     \/ /\ Dividend = <<0 - 7, 1>> /\ Divisor = <<2, 1>>
        /\ table[<<"a">>].value = RealRaw(0 - 7, 2)

\* ---- C18
\* C18: x div y on integer constants of either sign evaluates without error
\* to the integer q with q <= x/y < q + 1, the quotient rounded toward minus
\* infinity.
C18_DivFloors ==
  (driver = "evaluate" /\ pc \in {"parse", "kickoff", "getSymbols"}
     /\ IsQuotient(<<" ", "d", "i", "v", " ">>) /\ Dividend[2] = 1 /\ Divisor[2] = 1) =>
    /\ err = NoErr
    /\ pc # "parse" =>
         /\ table[<<"a">>].value.t = "int"
         /\ LET q == table[<<"a">>].value.n
                x == Dividend[1]
                y == Divisor[1]
            IN IF y > 0 THEN y * q <= x /\ x < y * (q + 1)
                        ELSE y * q >= x /\ x > y * (q + 1)

\* -7 div 2 has given -4, where rounding toward zero gives -3
C18_Witness ==
  /\ driver = "evaluate" /\ pc = "getSymbols" /\ IsQuotient(<<" ", "d", "i", "v", " ">>)
  /\ Dividend = <<0 - 7, 1>> /\ Divisor = <<2, 1>>
  /\ table[<<"a">>].value = IntV(0 - 4)

\* ---- C19
\* how many characters of s are in the set cs
RECURSIVE Count(_, _)
Count(s, cs) ==
  IF s = <<>> THEN 0 ELSE (IF Head(s) \in cs THEN 1 ELSE 0) + Count(Tail(s), cs)

\* the post-order rendering of a node: operands first, then the operator
RECURSIVE PostOrder(_)
PostOrder(node) ==
  CASE node.node = "Num" -> IntToStr(node.token.value.n)
    [] node.node = "BinaryOp" ->
         PostOrder(node.left) \o <<" ">> \o PostOrder(node.right) \o <<" ">> \o node.token.value.s
    [] node.node = "UnaryOp" -> PostOrder(node.operand) \o <<" ">> \o node.token.value.s

\* C19: the four expressions of RPN_cases parse, and get_rpn returns the
\* post-order rendering of the AST, with no parenthesis in it: `1 1 +` for
\* `1+1`, `2 3 + 2 * 5 /` for `(2+3)*2/5`, `1 +` for `+1` and `1 -` for `-1`.
C19_ReversePolish ==
  driver = "test_rnpConverter" =>
    /\ (input \in RPN_cases /\ pc \in {"Parser", "parse"}) => err = NoErr
    /\ pc = "get_rpn" =>
         /\ ret = PostOrder(ast)
         /\ Count(ret, {"(", ")"}) = 0
         /\ text = SrcRpn1 => ret = <<"1", " ", "1", " ", "+">>
         /\ text = SrcRpn2 => ret = <<"2", " ", "3", " ", "+", " ", "2", " ", "*", " ", "5", " ", "/">>
         /\ text = SrcRpn3 => ret = <<"1", " ", "+">>
         /\ text = SrcRpn4 => ret = <<"1", " ", "-">>

C19_Witness ==
  /\ driver = "test_rnpConverter" /\ pc = "get_rpn" /\ text = SrcRpn2
  /\ ret = <<"2", " ", "3", " ", "+", " ", "2", " ", "*", " ", "5", " ", "/">>

\* ---- C20
\* the prefix rendering of a node: every operator node in parentheses, the
\* operator first
RECURSIVE Prefix(_)
Prefix(node) ==
  CASE node.node = "Num" -> IntToStr(node.token.value.n)
    [] node.node = "BinaryOp" ->
         <<"(">> \o node.token.value.s \o <<" ">> \o Prefix(node.left) \o <<" ">>
           \o Prefix(node.right) \o <<")">>
    [] node.node = "UnaryOp" ->
         <<"(">> \o node.token.value.s \o <<" ">> \o Prefix(node.operand) \o <<")">>

\* C20: the four expressions of list_expr_converter_caseses parse, and
\* get_list_expr returns the prefix rendering of the AST, one pair of
\* parentheses for each operator: `(+ 1 1)` for `1+1`, `(/ (* (+ 2 3) 2) 5)`
\* for `(2+3)*2/5`, `(+ 1)` for `+1` and `(- 1)` for `-1`.
C20_ListExpression ==
  driver = "test_listExprConverter" =>
    /\ (input \in RPN_cases /\ pc \in {"Parser", "parse"}) => err = NoErr
    /\ pc = "get_list_expr" =>
         /\ ret = Prefix(ast)
         /\ Count(ret, {"("}) = Count(ret, {"+", "-", "*", "/"})
         /\ Count(ret, {")"}) = Count(ret, {"+", "-", "*", "/"})
         /\ text = SrcRpn1 => ret = <<"(", "+", " ", "1", " ", "1", ")">>
         /\ text = SrcRpn2 => ret = <<"(", "/", " ", "(", "*", " ", "(", "+", " ", "2", " ", "3", ")", " ", "2", ")", " ", "5", ")">>
         /\ text = SrcRpn3 => ret = <<"(", "+", " ", "1", ")">>
         /\ text = SrcRpn4 => ret = <<"(", "-", " ", "1", ")">>

C20_Witness ==
  /\ driver = "test_listExprConverter" /\ pc = "get_list_expr" /\ text = SrcRpn2
  /\ ret = <<"(", "/", " ", "(", "*", " ", "(", "+", " ", "2", " ", "3", ")", " ", "2", ")", " ", "5", ")">>

\* ---- C21
\* The usual reading of an arithmetic expression, defined on its symbols with
\* no parser: a symbol is a number (k = "n") or one character.
RECURSIVE Symbols(_)
Symbols(s) ==
  IF s = <<>> THEN <<>>
  ELSE IF IsSpace(Head(s)) THEN Symbols(Tail(s))
  ELSE IF IsDigit(Head(s))
  THEN <<[k |-> "n", v |-> StrToInt(SubSeq(s, 1, DigitRun(s)))]>>
         \o Symbols(SubSeq(s, DigitRun(s) + 1, Len(s)))
  ELSE <<[k |-> Head(s), v |-> 0]>> \o Symbols(Tail(s))

\* how many parentheses are open before symbol i
Depth(ts, i) ==
  Cardinality({j \in 1..(i - 1) : ts[j].k = "("}) - Cardinality({j \in 1..(i - 1) : ts[j].k = ")"})

\* the binary operators of ops outside every parenthesis: an operator is
\* binary when a number or a closing parenthesis precedes it
TopLevel(ts, ops) ==
  {i \in 2..Len(ts) : ts[i].k \in ops /\ ts[i - 1].k \in {"n", ")"} /\ Depth(ts, i) = 0}

\* the largest element of a non-empty set of integers
Last(I) == CHOOSE i \in I : \A j \in I : j <= i

\* the integer quotient rounded toward minus infinity
Quotient(a, b) ==
  CHOOSE q \in (0 - Abs(a))..Abs(a) :
    IF b > 0 THEN b * q <= a /\ a < b * (q + 1) ELSE b * q >= a /\ a > b * (q + 1)

\* A reading is a value (r = "value"), a division by zero (r = "zero"), or
\* none, for a text that is no expression (r = "malformed").
Reading(r, v) == [r |-> r, v |-> v]
Combine(op, x, y) ==
  IF x.r = "malformed" \/ y.r = "malformed" THEN Reading("malformed", 0)
  ELSE IF x.r = "zero" \/ y.r = "zero" THEN Reading("zero", 0)
  ELSE CASE op = "+" -> Reading("value", x.v + y.v)
         [] op = "-" -> Reading("value", x.v - y.v)
         [] op = "*" -> Reading("value", x.v * y.v)
         [] op = "/" -> IF y.v = 0 THEN Reading("zero", 0)
                        ELSE Reading("value", Quotient(x.v, y.v))

RECURSIVE ReadExpr(_), ReadTerm(_), ReadFactor(_)
\* an expression is read from its last binary + or - outside parentheses
ReadExpr(ts) ==
  Let(TopLevel(ts, {"+", "-"}), LAMBDA I :
    IF I = {} THEN ReadTerm(ts)
    ELSE Let(Last(I), LAMBDA i :
           Combine(ts[i].k, ReadExpr(SubSeq(ts, 1, i - 1)), ReadTerm(SubSeq(ts, i + 1, Len(ts))))))
\* a term is read from its last * or / outside parentheses
ReadTerm(ts) ==
  Let(TopLevel(ts, {"*", "/"}), LAMBDA I :
    IF I = {} THEN ReadFactor(ts)
    ELSE Let(Last(I), LAMBDA i :
           Combine(ts[i].k, ReadTerm(SubSeq(ts, 1, i - 1)), ReadFactor(SubSeq(ts, i + 1, Len(ts))))))
\* a factor is a number, a signed factor, or an expression in parentheses
ReadFactor(ts) ==
  IF ts = <<>> THEN Reading("malformed", 0)
  ELSE IF Len(ts) = 1 /\ ts[1].k = "n" THEN Reading("value", ts[1].v)
  ELSE IF ts[1].k = "+" THEN ReadFactor(Tail(ts))
  ELSE IF ts[1].k = "-" THEN Combine("-", Reading("value", 0), ReadFactor(Tail(ts)))
  ELSE IF ts[1].k = "(" /\ ts[Len(ts)].k = ")" /\ \A i \in 2..Len(ts) : Depth(ts, i) >= 1
  THEN ReadExpr(SubSeq(ts, 2, Len(ts) - 1))
  ELSE Reading("malformed", 0)

UsualReading == ReadExpr(Symbols(text))

\* C21: for every text that is an expression, Parser() and parse() raise
\* nothing and expr() returns the value of the usual reading, or raises
\* ZeroDivisionError where that reading divides by zero; `2*(-2)` is -4,
\* `(5 + -1)/(2+ +2) + 2* -2 + 2+(-2)` is -3, `5 - - - + - (3 + 4) - +2` is 10,
\* `132-12` is 120 and `(1+2)*(4+2)/2+1` is 10.
C21_UsualReading ==
  (driver = "test_calc" /\ pc \in {"Parser", "parse", "expr"}) =>
    /\ UsualReading.r # "malformed" =>
         /\ pc # "expr" => err = NoErr
         /\ (pc = "expr" /\ UsualReading.r = "value") => (err = NoErr /\ ret = IntV(UsualReading.v))
         /\ (pc = "expr" /\ UsualReading.r = "zero") => err = ZeroDivisionError
    /\ (pc = "expr" /\ text = SrcCalc1) => ret = IntV(0 - 4)
    /\ (pc = "expr" /\ text = SrcCalc2) => ret = IntV(0 - 3)
    /\ (pc = "expr" /\ text = SrcCalc3) => ret = IntV(10)
    /\ (pc = "expr" /\ text = SrcCalc4) => ret = IntV(120)
    /\ (pc = "expr" /\ text = SrcCalc5) => ret = IntV(10)
    /\ (input \in calc_cases /\ pc # "expr") => err = NoErr

\* 7-2-2 has given 3: subtraction associates to the left
C21_Witness ==
  /\ driver = "test_calc" /\ pc = "expr"
  /\ input = <<(<<"7">>), <<"-">>, <<"2">>, <<"-">>, <<"2">>>>
  /\ ret = IntV(3)

\* ---- C22
\* C22 (as the specification states it): no evaluator fails for lack of a
\* handler: on an AST that parse() returned, neither kickoff nor get_rpn nor
\* get_list_expr raises AttributeError.
C22_EvaluatorsTotal ==
  (driver \in Pipelines /\ pc \in {"kickoff", "get_rpn", "get_list_expr"}) =>
    err.exc # "AttributeError"

\* ---- C23
\* C23: a call of eat(token_type) whose token_type is the kind of the current
\* token returns that token and makes the next token current: the oldest
\* peeked token, which leaves the buffer and leaves the lexer alone, or, with
\* an empty buffer, the next non-comment token of the lexer (an exception the
\* lexer raises for that token is the only one such a call can raise, and it
\* leaves the current token in place).  A call with any other token_type raises
\* "Unexpected token: <current token>. Expected: <token_type>" and leaves the
\* current token, the peeked tokens and the lexer as they were.
C23_EatMatchOrRaise ==
  [][(driver = "calls" /\ pc' = "eat") =>
       IF parser.current_token.type = args'[1]
       THEN IF parser.peeked_tokens # <<>>
            THEN /\ err' = NoErr
                 /\ ret' = parser.current_token
                 /\ parser'.current_token = Head(parser.peeked_tokens)
                 /\ parser'.peeked_tokens = Tail(parser.peeked_tokens)
                 /\ lexer' = lexer
            ELSE \E next \in {Parser_get_next_token(ps)} :
                   /\ err' = next.err
                   /\ lexer' = next.ps.lexer
                   /\ parser'.peeked_tokens = <<>>
                   /\ IF next.err = NoErr
                      THEN ret' = parser.current_token /\ parser'.current_token = next.tok
                      ELSE parser'.current_token = parser.current_token
       ELSE /\ err'.exc = "Exception"
            /\ err'.fmt = "Unexpected token: {0}. Expected: {1}"
            /\ err'.tok = parser.current_token
            /\ err'.exp = args'[1]
            /\ parser' = parser
            /\ lexer' = lexer]_vars

\* eat(DOT) has raised on a current token that is not a DOT, with a token
\* waiting in the peek buffer and text left to scan.
C23_Witness ==
  /\ driver = "calls" /\ pc = "eat" /\ args = <<DOT>>
  /\ err.fmt = "Unexpected token: {0}. Expected: {1}"
  /\ parser.current_token.type = INTEGER_CONST
  /\ parser.peeked_tokens # <<>>
  /\ non_scanned(lexer) # <<>>

\* ---- C24
\* The tokens get_next_token returns when called again and again on the lexer
\* lx, up to the first EOF token or to the call that raises.
RECURSIVE LexerStream(_, _)
LexerStream(lx, calls) ==
  IF calls = 0 THEN <<>>
  ELSE Let(Lexer_get_next_token(lx), LAMBDA r :
         IF r.err # NoErr THEN <<>>
         ELSE IF r.tok.type = EOF THEN <<r.tok>>
         ELSE <<r.tok>> \o LexerStream(r.lx, calls - 1))

NonComment(tokens) == SelectSeq(tokens, LAMBDA t : t.type # COMMENT)

RECURSIVE UpToEOF(_)
UpToEOF(tokens) ==
  IF tokens = <<>> THEN <<>>
  ELSE IF Head(tokens).type = EOF THEN <<Head(tokens)>>
  ELSE <<Head(tokens)>> \o UpToEOF(Tail(tokens))

\* The tokens still to come, in the order the lexer produces them: the
\* current token, the peeked tokens, and the non-comment tokens the lexer has
\* not produced yet.
Pending(p, lx) ==
  UpToEOF(<<p.current_token>> \o p.peeked_tokens \o NonComment(LexerStream(lx, lx.len + 1)))

\* One call of eat or peek keeps the order: peek returns the first token the
\* lexer has not produced yet, puts it last in the buffer and leaves the
\* tokens to come as they are; eat returns the first of the tokens to come and
\* leaves the others (EOF stays); a call that raises keeps the current token
\* and the buffer.
OrderKept ==
  (driver = "calls" /\ pc' \in {"eat", "peek"}) =>
    IF err' # NoErr
    THEN parser' = parser
    ELSE IF pc' = "peek"
    THEN /\ ret' = Head(NonComment(LexerStream(lexer, lexer.len + 1)))
         /\ parser'.peeked_tokens = Append(parser.peeked_tokens, ret')
         /\ parser'.current_token = parser.current_token
         /\ Pending(parser', lexer') = Pending(parser, lexer)
    ELSE /\ ret' = Head(Pending(parser, lexer))
         /\ Pending(parser', lexer') =
              (IF ret'.type = EOF THEN Pending(parser, lexer) ELSE Tail(Pending(parser, lexer)))

C25_NameContextNoLookup ==
  Interpreted =>
    /\ NameNotDefined(err) => err.txt \in Uses(ast, NoUses).undefined
    /\ err = NoErr =>
         DOMAIN table = Uses(ast, NoUses).declared \cup Uses(ast, NoUses).assigned

\* the program has assigned c, which nothing declared, and declared b, which
\* nothing assigned: both have their entry and kickoff has returned
C25_Witness ==
  /\ driver = "evaluate" /\ pc = "kickoff" /\ err = NoErr
  /\ <<"c">> \in Uses(ast, NoUses).assigned \ Uses(ast, NoUses).declared
  /\ <<"b">> \in Uses(ast, NoUses).declared \ Uses(ast, NoUses).assigned
  /\ table[<<"c">>].type = NoneV
  /\ table[<<"b">>].value = NoneV

\* ---- C26
\* The declarations and statements of a program in source order, the ones of
\* nested blocks in their place.
RECURSIVE Statements(_), StatementsOfAll(_)
Statements(node) ==
  IF node.node = "CompoundOp" THEN StatementsOfAll(node.operands) ELSE <<node>>
StatementsOfAll(nodes) ==
  IF nodes = <<>> THEN <<>> ELSE Statements(Head(nodes)) \o StatementsOfAll(Tail(nodes))

\* Each statement evaluated on the table the statements before it left, up
\* to the first that raises.
RECURSIVE InSourceOrder(_, _)
InSourceOrder(statements, t) ==
  IF statements = <<>> THEN [table |-> t, err |-> NoErr]
  ELSE Let(visit(Head(statements), t), LAMBDA r :
         IF r.err # NoErr THEN [table |-> r.table, err |-> r.err]
         ELSE InSourceOrder(Tail(statements), r.table))

\* C26: kickoff leaves the one table that evaluating the statements of the
\* program one after the other in source order leaves, those of nested blocks
\* at their place and on the same table, and it raises what the first failing
\* statement raises; so a later statement sees what a nested block stored and
\* the snapshot holds the last value assigned to a name.
C26_SourceOrderFlatTable ==
  Interpreted =>
    \E r \in {InSourceOrder(Statements(ast), EmptyTable)} :
      /\ table = r.table
      /\ pc = "kickoff" => err = r.err
      /\ pc = "getSymbols" => r.err = NoErr

\* the program with a nested block: x := 2 inside it is read by y := x / 4
\* after it, and x := x + 10 assigns x again
C26_Witness ==
  /\ driver = "evaluate" /\ text = SrcNested /\ pc = "getSymbols"
  /\ table[<<"x">>].value = IntV(12)
  /\ table[<<"y">>].value = op_FLOAT_DIV(IntV(2), IntV(4)).val
  /\ table[<<"y">>].value # NoneV

\* ---- C27
\* C27: in every state of a Lexer driven through get_next_token and comment,
\* whether the calls return or raise, 0 <= pos <= len(text), len is the
\* length of the text, and no advance has taken the clamping branch.
C27_CursorInBounds ==
  /\ 0 <= lexer.pos
  /\ lexer.pos <= lexer.len
  /\ lexer.len = Len(lexer.text)
  /\ ~lexer.clamped

\* the cursor has reached the end of a text through a token that ends it,
\* after a comment and a blank
C27_Witness ==
  /\ driver = "calls" /\ pc = "get_next_token" /\ err = NoErr
  /\ lexer.len > 0 /\ lexer.pos = lexer.len
  /\ ret.type = REAL_CONST
  /\ \E i \in 1..lexer.len : lexer.text[i] = " "
  /\ lexer.text[1] = "{"

\* ---- C28
\* the cursor is at the end of the text, where get_next_token returns EOF
AtEnd == pc # "start" /\ lexer.pos = lexer.len

\* C28, one call: a call of get_next_token that returns a token other than
\* EOF leaves the cursor further than it was; a call at the end of the text
\* returns EOF and leaves the whole lexer, cursor and current_token, as it
\* was; no call of get_next_token or comment moves the cursor back, so the end
\* of the text, once reached, is never left.
C28_Progress ==
  [][(driver = "calls" /\ pc # "start") =>
       /\ lexer'.pos >= lexer.pos
       /\ pc' = "get_next_token" =>
            /\ (err' = NoErr /\ ret'.type # EOF) => lexer'.pos > lexer.pos
            /\ (err' = NoErr /\ ret'.type = EOF) => AtEnd
            /\ AtEnd => (err' = NoErr /\ ret'.type = EOF /\ lexer' = lexer)]_vars

\* C28, all calls: from any state of the lexer, calling get_next_token again
\* and again returns EOF or raises after at most len(text) tokens.
C28_Terminates ==
  (driver = "calls" /\ pc # "start") =>
    \E tokens \in {LexerStream(lexer, lexer.len + 1)} :
      \/ Len(tokens) <= lexer.len
      \/ tokens[Len(tokens)].type = EOF /\ Len(tokens) <= lexer.len - lexer.pos + 1

\* C28: the two together.
C28_TokenizationTerminates == C28_Progress /\ []C28_Terminates

\* EOF has been returned at the end of a text of three characters, after a
\* name, which is still the lexer's current_token
C28_Witness ==
  /\ driver = "calls" /\ pc = "get_next_token" /\ err = NoErr
  /\ ret.type = EOF /\ AtEnd
  /\ lexer.current_token.type = VAR
  /\ lexer.len = 3

\* ---- C29
\* Every CompoundOp node under node, the node itself included, has an operand.
RECURSIVE NoEmptyCompound(_)
NoEmptyCompound(node) ==
  CASE node.node = "CompoundOp" ->
         /\ node.operands # <<>>
         /\ \A i \in 1..Len(node.operands) : NoEmptyCompound(node.operands[i])
    [] node.node = "BinaryOp" -> NoEmptyCompound(node.left) /\ NoEmptyCompound(node.right)
    [] node.node = "UnaryOp" -> NoEmptyCompound(node.operand)
    [] OTHER -> TRUE

\* C29: the AST parse() returns is a block of exactly two operands, the group
\* of declarations with at least one declaration and the statement list with
\* at least one statement (an Empty one when nothing is written), every
\* CompoundOp under it has an operand, and kickoff never raises
\* UnboundLocalError for `value`.
C29_CompoundHasOperands ==
  /\ (driver \in Pipelines /\ pc = "parse" /\ err = NoErr) =>
       /\ ast.node = "CompoundOp"
       /\ Len(ast.operands) = 2
       /\ ast.operands[1].node = "CompoundOp" /\ ast.operands[1].token.value = <<"V", "A", "R">>
       /\ \A i \in 1..Len(ast.operands[1].operands) :
            /\ ast.operands[1].operands[i].node = "BinaryOp"
            /\ ast.operands[1].operands[i].token.type = COLON
       /\ ast.operands[2].node = "CompoundOp"
       /\ NoEmptyCompound(ast)
  /\ Interpreted => err.exc # "UnboundLocalError"

\* `begin end` after the declarations: the statement list holds the one
\* Empty statement, and kickoff has returned
C29_Witness ==
  /\ driver = "evaluate" /\ pc = "kickoff" /\ err = NoErr
  /\ Len(ast.operands[2].operands) = 1
  /\ ast.operands[2].operands[1].node = "Empty"
====
